---- MODULE Spec2Model ----
(***************************************************************************)
(* The hub client of the nymea integration (src/maveo_box.py, MaveoBox):   *)
(* the command connection with its process-wide lock, the Hello handshake  *)
(* and push-button pairing of init_connection, and the handshake of the    *)
(* notification (WebSocket) connection.                                    *)
(*                                                                         *)
(* Threads: Main runs init_connection (which calls send_command and        *)
(* _pushbuttonAuthentication inline); each worker is one executor job in   *)
(* which an entity calls send_command once init_connection has finished.   *)
(* The hub is the environment: it answers the requests it received in any  *)
(* order, may push notifications on the command connection and may close   *)
(* the connection.                                                         *)
(***************************************************************************)
EXTENDS Integers, Sequences, FiniteSets, TLC

\* ---------------------------------------------------------------- bounds
MaxCalls == 2
MaxNotifs == 2
MaxWsNotifs == 2
MaxRegs == 2
MaxHubFrames == 4
MaxTwinCalls == 2

\* ------------------------------------------------------------- constants
Main == 0
Workers == 1..MaxCalls
Callers == {Main} \cup Workers

None == "None"
Free == -1
CtorTokens == {None, "T0"}
HubTokens == {"T1", "T2"}
Statuses == {"success", "error"}

Hello == "JSONRPC.Hello"
RequestPushButtonAuth == "JSONRPC.RequestPushButtonAuth"
GetThings == "Integrations.GetThings"
GetStateValue == "Integrations.GetStateValue"
PushButtonAuthFinished == "JSONRPC.PushButtonAuthFinished"
StateChanged == "Integrations.StateChanged"

ThingAdded == "Integrations.ThingAdded"
NotifNames == {StateChanged, ThingAdded}

\* The Things of the hub; Thing t's _handle_state_changed is handler t.
ThingIds == {"X", "Y"}
Handlers == ThingIds
StateTypeIds == {"S1", "S2"}
Values == {"on", "off"}

NoFlags == [authenticationRequired |-> FALSE, initialSetupRequired |-> FALSE,
            pushButtonAuthAvailable |-> FALSE]

VARIABLES
    token,                   \* self._token
    authenticationRequired,  \* self._authenticationRequired
    initialSetupRequired,    \* self._initialSetupRequired
    pushButtonAuthAvailable, \* self._pushButtonAuthAvailable
    commandId,               \* self._commandId
    mutex,                   \* the module-level Lock: Free or its holder
    sock,                    \* self._sock: "unconnected", "open", "closed", "reset"
    conn,                    \* 0: not connected, 1: the plain socket, 2: the TLS socket
    pc,                      \* each thread's position
    command_id,              \* send_command's local command_id, per caller
    myReq,                   \* index in sent of the frame the caller's call wrote
    ret,                     \* what the caller's last send_command returned or raised
    initResult,              \* what init_connection returned
    initErr,                 \* the exception init_connection raised
    helloAt,                 \* Len(sent) when the Hello response was processed (0: not yet)
    sent,                    \* the request frames written on the command connection
    wire,                    \* frames the hub wrote that the client has not read
    pending,                 \* requests (indices in sent) the hub has not answered
    notifs,                  \* notifications the hub has pushed on the command connection
    pairing,                 \* the hub's pairing: "idle", "requested", or the token issued
    pbIgnored,               \* the push-button wait has read a failed outcome and gone on
    wsPc,                    \* the listener task: "none", the await it is at, or "ended"
    wsSent,                  \* the frames the listener wrote on the notification connection
    stopFlag,                \* self._stop_notification_listener
    online,                  \* self.online
    wsRecv,                  \* the statuses of the answers the listener has read
    wsCancel,                \* the listener task has a cancellation pending
    orphans,                 \* tasks still running that self._ws_task no longer names
    cancelledAt,             \* the await at which a task was cancelled last ("none": never)
    stopPc,                  \* stop_notification_listener: "idle", "awaiting", "returned"
    handlers,                \* self._notification_handlers
    wsCount,                 \* how many messages the listen loop has read
    calls,                   \* callbacks scheduled on the event loop, not yet run
    lastRaised,              \* the callback that the event loop ran last raised
    cache,                   \* Thing._state_cache, per Thing
    ctorToken,               \* the token given to the constructor
    hubFlags,                \* the flags the hub answers Hello with
    probe,                   \* the last test_connection: what its connect met, what it returned
    flowStep,                \* the config flow: the form it shows, or how it ended
    flowErrors,              \* the errors of the user form shown last
    flowReason,              \* the reason of async_abort
    flowData,                \* NymeaConfigFlow.data
    entry,                   \* the data of the config entry created
    submitted,               \* the input the flow handled last, and what a connect to it meets
    rdFrames,                \* the reader: the frames (as bytes) the hub wrote for the call
    rdChunks,                \* the reader: how the network delivers them, one chunk per recv
    stream,                  \* the reader: the chunks not yet received
    data,                    \* the reader: send_command's local data
    rdPc,                    \* the reader: "idle", "reading", "done" or "raised"
    rdResult,                \* the reader: the decoded response, or the error raised
    lastSeen,                \* per Thing and stateTypeId, the value of the StateChanged read last
    hubCall,                 \* Hub.send_command of src/hub.py: one call and its resubmissions
    setupPc,                 \* async_setup_entry and async_unload_entry: how far they are
    twin                     \* two further MaveoBox objects of the process, each with its calls

vars == <<token, authenticationRequired, initialSetupRequired,
          pushButtonAuthAvailable, commandId, mutex, sock, conn, pc,
          command_id, myReq, ret, initResult, initErr, helloAt, sent, wire,
          pending, notifs, pairing, pbIgnored, wsPc, wsSent, stopFlag,
          online, wsRecv, wsCancel, orphans, cancelledAt, stopPc, handlers, wsCount,
          calls, lastRaised, cache, ctorToken, hubFlags, probe, flowStep,
          flowErrors, flowReason, flowData, entry, submitted, rdFrames,
          rdChunks, stream, data, rdPc, rdResult, lastSeen, hubCall, setupPc,
          twin>>

sessionVars == <<token, authenticationRequired, initialSetupRequired,
                 pushButtonAuthAvailable>>
hubVars == <<ctorToken, hubFlags, pbIgnored>>
flowVars == <<flowStep, flowErrors, flowReason, flowData, entry, submitted>>
readerVars == <<rdFrames, rdChunks, stream, data, rdPc, rdResult>>
extraVars == <<hubCall, setupPc, twin>>
taskVars == <<wsCancel, orphans, cancelledAt, stopPc>>
dispatchVars == <<handlers, wsCount, calls, lastRaised, cache, lastSeen>>
wsVars == <<wsPc, wsSent, stopFlag, online, wsRecv, taskVars, dispatchVars>>

\* ---------------------------------------------------------------- frames
Request(id, method, tok, by) ==
    [id |-> id, method |-> method, token |-> tok, by |-> by, conn |-> conn]

Response(id, status, req, flags) ==
    [kind |-> "response", id |-> id, status |-> status, req |-> req,
     flags |-> flags, name |-> None, success |-> FALSE, token |-> None]

Notification(name, success, tok) ==
    [kind |-> "notification", id |-> -1, status |-> None, req |-> 0,
     flags |-> NoFlags, name |-> name, success |-> success, token |-> tok]

NoReturn == [kind |-> "none", id |-> -1, status |-> None, req |-> 0,
             flags |-> NoFlags, name |-> None, success |-> FALSE, token |-> None]
Raised(err) == [NoReturn EXCEPT !.kind = "raised", !.status = err]
ReturnedNone == [NoReturn EXCEPT !.kind = "returnedNone"]

\* Messages on the notification connection.
Params(t, s, v) == [thingId |-> t, stateTypeId |-> s, value |-> v]
WsNotification(name, params) == [kind |-> "notification", name |-> name, params |-> params]
WsResponse == [kind |-> "response", name |-> None, params |-> Params(None, None, None)]

\* The config flow (src/config_flow.py).  A host is the sequence of its
\* characters; "a" stands for the letters and digits.
NoProbe == [outcome |-> "none", result |-> FALSE]
NoErrors == [base |-> None, host |-> None]
NoData == [host |-> <<>>, port |-> 0, websocket_port |-> 0, token |-> None]
NoInput == [via |-> "none", host |-> <<>>, port |-> 0, websocket_port |-> 0,
            type |-> None, configured |-> FALSE, reach |-> "none"]

\* What json.loads yields: an object, of which the reader uses the
\* notification key and the id, or an error.
Object(kind, id) == [kind |-> kind, id |-> id]
NoObject == Object("none", -1)

\* A call of Hub.send_command of the earlier revision (src/hub.py) that has
\* not started: the frames written, the hub's token and commandId, the
\* statuses read.
NoHubCall == [pc |-> "idle", sent |-> <<>>, token |-> None, commandId |-> 0,
              pushButton |-> FALSE, authRequired |-> FALSE, method |-> None,
              ret |-> "none"]

\* Two further hubs of the process, and a hub none of whose calls has started.
TwinHubs == {"A", "B"}
NoTwinCall == [pc |-> "idle", calls |-> 0, wire |-> None, ret |-> "none"]

\* ------------------------------------------------------------------ Init
Init ==
    /\ ctorToken \in CtorTokens
    /\ hubFlags \in [authenticationRequired : BOOLEAN,
                     initialSetupRequired : BOOLEAN,
                     pushButtonAuthAvailable : BOOLEAN]
    /\ token = ctorToken
    /\ pushButtonAuthAvailable = FALSE
    /\ authenticationRequired = TRUE
    /\ initialSetupRequired = FALSE
    /\ commandId = 0
    /\ mutex = Free
    /\ sock = "unconnected"
    /\ conn = 0
    /\ pc = [c \in Callers |-> IF c = Main THEN "new" ELSE "queued"]
    /\ command_id = [c \in Callers |-> -1]
    /\ myReq = [c \in Callers |-> 0]
    /\ ret = [c \in Callers |-> NoReturn]
    /\ initResult = None
    /\ initErr = None
    /\ helloAt = 0
    /\ sent = <<>>
    /\ wire = <<>>
    /\ pending = {}
    /\ notifs = 0
    /\ pairing = "idle"
    /\ pbIgnored = FALSE
    /\ wsPc = "none"
    /\ wsSent = <<>>
    /\ stopFlag = FALSE
    /\ online = TRUE
    /\ wsRecv = <<>>
    /\ wsCancel = FALSE
    /\ orphans = 0
    /\ cancelledAt = "none"
    /\ stopPc = "idle"
    /\ handlers = [n \in NotifNames |-> <<>>]
    /\ wsCount = 0
    /\ calls = <<>>
    /\ lastRaised = FALSE
    /\ cache = [t \in ThingIds |-> [s \in StateTypeIds |-> None]]
    /\ probe = NoProbe
    /\ flowStep = "none"
    /\ flowErrors = NoErrors
    /\ flowReason = None
    /\ flowData = NoData
    /\ entry = NoData
    /\ submitted = NoInput
    /\ rdFrames = <<>>
    /\ rdChunks = <<>>
    /\ stream = <<>>
    /\ data = <<>>
    /\ rdPc = "idle"
    /\ rdResult = NoObject
    /\ lastSeen = [t \in ThingIds |-> [s \in StateTypeIds |-> None]]
    /\ hubCall = NoHubCall
    /\ setupPc = "new"
    /\ twin = [h \in TwinHubs |-> NoTwinCall]

\* ------------------------------------------------------- frame decoding
Garbage == [NoReturn EXCEPT !.kind = "garbage"]

\* "notification" in response
IsNotification(f) == f.kind = "notification"

\* The inner recv loop followed by json.loads: what one pass over
\* "data = b''; while b'}\n' not in data: data += recv(4096)" and the decode
\* of data can yield, given the frames the hub has written.  The loop ends
\* with the recv that completes the first frame; that recv returns whatever
\* the socket holds, so data is the first frame alone (decoded), or the first
\* frame followed by all or by a part of the next one, which json.loads
\* rejects ("Extra data"); a part left in the socket is Garbage for the next
\* pass.  A recv on an empty socket whose peer has closed returns b"".
\* Each outcome: <<"frame", f, rest>>, or <<"raise", Raised(error), rest>>.
ReadOutcomes(w, s) ==
    (IF w # <<>> /\ Head(w).kind # "garbage"
        THEN {<<"frame", Head(w), Tail(w)>>} ELSE {})
    \cup (IF w # <<>> /\ Head(w).kind = "garbage"
        THEN {<<"raise", Raised("JSONDecodeError"), Tail(w)>>} ELSE {})
    \cup (IF Len(w) >= 2 /\ Head(w).kind # "garbage"
        THEN {<<"raise", Raised("JSONDecodeError"), Tail(Tail(w))>>,
              <<"raise", Raised("JSONDecodeError"), <<Garbage>> \o Tail(Tail(w))>>}
        ELSE {})
    \cup (IF w = <<>> /\ s = "closed"
        THEN {<<"raise", Raised("RuntimeError"), w>>} ELSE {})
    \cup (IF w = <<>> /\ s = "reset"
        THEN {<<"raise", Raised("OSError"), w>>} ELSE {})

\* ---------------------------------------------------------- send_command
\* "with mutex": the lock can be taken when nobody holds it.
CanAcquireAlways == TRUE
CanAcquire == mutex = Free

\* if self._authenticationRequired and self._token is not None: attach it
AttachedTokenAlways(authRequired, tok) == tok
AttachedTokenNever(authRequired, tok) == None
AttachedToken(authRequired, tok) == IF authRequired /\ tok # None THEN tok ELSE None

\* while responseId != command_id
MatchesAny(responseId, cmdId) == TRUE
Matches(responseId, cmdId) == responseId = cmdId

\* if response["status"] != "success": return None, else the response
Result(response) == IF response.status # "success" THEN ReturnedNone ELSE response

\* The thread may start its send_command call: Main at the two Hello calls of
\* init_connection; a worker, which is one executor job running one call, once
\* init_connection has finished and the jobs queued before it have started.
MayCall(c) ==
    IF c = Main THEN pc[Main] = "call"
    ELSE /\ pc[c] = "queued"
         /\ pc[Main] \in {"returned", "failed"}
         /\ c = 1 \/ pc[c - 1] # "queued"

\* Worker 1's call is the initial fetch of an entity's async_update.
MethodOf(c) == IF c = Main THEN Hello ELSE IF c = 1 THEN GetStateValue ELSE GetThings

\* Where init_connection goes on when its Hello call has raised (the plain
\* attempt: the TLS attempt; the TLS attempt: the error propagates) or has
\* returned; a worker's job is done.
AfterCallResubmit(c, r) ==
    IF c # Main THEN (IF r.kind = "returnedNone" THEN "queued" ELSE "done")
    ELSE IF r.kind # "raised" THEN "handshake"
    ELSE IF conn = 1 THEN "sslConnect" ELSE "failed"
AfterCallRetryBroken(c, r) ==
    IF c # Main THEN (IF r = Raised("RuntimeError") THEN "queued" ELSE "done")
    ELSE IF r.kind # "raised" THEN "handshake"
    ELSE IF conn = 1 THEN "sslConnect" ELSE "failed"
AfterCall(c, r) ==
    IF c # Main THEN "done"
    ELSE IF r.kind # "raised" THEN "handshake"
    ELSE IF conn = 1 THEN "sslConnect" ELSE "failed"

\* "with mutex" (line 224) releases the lock however its block is left.
LockAfterKeptOnError(c, r) == IF r.kind = "raised" THEN c ELSE Free
LockAfter(c, r) == Free

\* send_command ends, by return or by exception: "with mutex" releases the lock.
Complete(c, r) ==
    /\ ret' = [ret EXCEPT ![c] = r]
    /\ pc' = [pc EXCEPT ![c] = AfterCall(c, r)]
    /\ mutex' = LockAfter(c, r)
    /\ initErr' = IF c = Main /\ AfterCall(c, r) = "failed" THEN r.status ELSE initErr

\* Lines 224-237: take the lock, take the next id, build and write the frame.
\* A send on a socket whose peer has closed succeeds once (the peer answers with
\* a reset); on a reset or unconnected socket it raises.
SendRequest(c) ==
    /\ MayCall(c)
    /\ CanAcquire
    /\ command_id' = [command_id EXCEPT ![c] = commandId]
    /\ commandId' = commandId + 1
    /\ IF sock \in {"open", "closed"}
         THEN /\ sent' = Append(sent, Request(commandId, MethodOf(c),
                            AttachedToken(authenticationRequired, token), c))
              /\ myReq' = [myReq EXCEPT ![c] = Len(sent) + 1]
              /\ pending' = IF sock = "open" THEN pending \cup {Len(sent) + 1} ELSE pending
              /\ sock' = IF sock = "closed" THEN "reset" ELSE sock
              /\ pc' = [pc EXCEPT ![c] = "reading"]
              /\ mutex' = c
              /\ UNCHANGED <<ret, initErr>>
         ELSE /\ Complete(c, Raised("OSError"))
              /\ UNCHANGED <<sent, myReq, pending, sock>>
    /\ UNCHANGED <<sessionVars, hubVars, probe, flowVars, readerVars, extraVars, wsVars, conn, initResult, helloAt, wire, notifs, pairing>>

\* Lines 239-265: one pass of the response loop.
ReadResponse(c) ==
    /\ pc[c] = "reading"
    /\ \E o \in ReadOutcomes(wire, sock) :
        /\ wire' = o[3]
        /\ IF o[1] = "raise" THEN Complete(c, o[2])
           ELSE IF IsNotification(o[2]) THEN UNCHANGED <<ret, pc, mutex, initErr>>
           ELSE IF Matches(o[2].id, command_id[c]) THEN Complete(c, Result(o[2]))
           ELSE UNCHANGED <<ret, pc, mutex, initErr>>
    /\ UNCHANGED <<sessionVars, hubVars, probe, flowVars, readerVars, extraVars, wsVars, commandId, sock, conn, command_id, myReq,
                   initResult, helloAt, sent, pending, notifs, pairing>>

\* ------------------------------------------------------- init_connection
\* Line 101: self._sock.connect, outside the try: a failure propagates.
Connect ==
    /\ pc[Main] = "new"
    /\ \/ /\ sock' = "open"
          /\ conn' = 1
          /\ pc' = [pc EXCEPT ![Main] = "call"]
          /\ UNCHANGED initErr
       \/ /\ pc' = [pc EXCEPT ![Main] = "failed"]
          /\ initErr' = "OSError"
          /\ UNCHANGED <<sock, conn>>
    /\ UNCHANGED <<sessionVars, hubVars, probe, flowVars, readerVars, extraVars, wsVars, commandId, mutex, command_id, myReq, ret,
                   initResult, helloAt, sent, wire, pending, notifs, pairing>>

\* Lines 107-120: the plain Hello raised; a new socket, connected and wrapped
\* in the unverified TLS context.  What the old socket held is gone with it.
SslConnect ==
    /\ pc[Main] = "sslConnect"
    /\ wire' = <<>>
    /\ pending' = {}
    /\ \/ /\ sock' = "open"
          /\ conn' = 2
          /\ pc' = [pc EXCEPT ![Main] = "call"]
          /\ UNCHANGED initErr
       \/ /\ sock' = "unconnected"
          /\ conn' = 2
          /\ pc' = [pc EXCEPT ![Main] = "failed"]
          /\ initErr' = "OSError"
    /\ UNCHANGED <<sessionVars, hubVars, probe, flowVars, readerVars, extraVars, wsVars, commandId, mutex, command_id, myReq, ret,
                   initResult, helloAt, sent, notifs, pairing>>

\* if self._token is None (line 147) / if self._token is not None (line 160)
TokenKnownNever(tok) == FALSE
TokenKnown(tok) == tok # None

\* Lines 129-148: the path the Hello flags select.
HelloPathNoSetupCheck(flags, tok) ==
    IF ~flags.authenticationRequired THEN "returnNone"
    ELSE IF ~flags.pushButtonAuthAvailable THEN "raisePushButton"
    ELSE IF ~TokenKnown(tok) THEN "pushButton"
    ELSE "returnToken"
HelloPathNoPushButtonCheck(flags, tok) ==
    IF ~flags.authenticationRequired THEN "returnNone"
    ELSE IF flags.initialSetupRequired THEN "raiseSetup"
    ELSE IF ~TokenKnown(tok) THEN "pushButton"
    ELSE "returnToken"
HelloPath(flags, tok) ==
    IF ~flags.authenticationRequired THEN "returnNone"
    ELSE IF flags.initialSetupRequired THEN "raiseSetup"
    ELSE IF ~flags.pushButtonAuthAvailable THEN "raisePushButton"
    ELSE IF ~TokenKnown(tok) THEN "pushButton"
    ELSE "returnToken"

\* Lines 123-156 up to the call of _pushbuttonAuthentication.  A Hello answered
\* with a status other than success made send_command return None, and
\* handshake_message["params"] raises TypeError.
ProcessHello ==
    /\ pc[Main] = "handshake"
    /\ IF ret[Main].kind = "returnedNone"
         THEN /\ pc' = [pc EXCEPT ![Main] = "failed"]
              /\ initErr' = "TypeError"
              /\ UNCHANGED <<sessionVars, initResult, helloAt>>
         ELSE LET flags == ret[Main].flags
                  path == HelloPath(flags, token) IN
              /\ initialSetupRequired' = flags.initialSetupRequired
              /\ authenticationRequired' = flags.authenticationRequired
              /\ pushButtonAuthAvailable' = flags.pushButtonAuthAvailable
              /\ helloAt' = Len(sent)
              /\ UNCHANGED token
              /\ pc' = [pc EXCEPT ![Main] =
                     CASE path \in {"returnNone", "returnToken"} -> "returned"
                       [] path \in {"raiseSetup", "raisePushButton"} -> "failed"
                       [] OTHER -> "pbSend"]
              /\ initResult' = IF path = "returnToken" THEN token ELSE None
              /\ initErr' = IF path \in {"raiseSetup", "raisePushButton"}
                              THEN "NotImplementedError" ELSE initErr
    /\ UNCHANGED <<hubVars, probe, flowVars, readerVars, extraVars, wsVars, commandId, mutex, sock, conn, command_id, myReq,
                   ret, sent, wire, pending, notifs, pairing>>

\* --------------------------------------------- _pushbuttonAuthentication
\* Lines 205-209: the notification that ends the wait.
IsAuthSuccessAnyOutcome(f) == f.kind = "notification" /\ f.name = PushButtonAuthFinished
IsAuthSuccess(f) ==
    f.kind = "notification" /\ f.name = PushButtonAuthFinished /\ f.success = TRUE

InitRaises(err) ==
    /\ pc' = [pc EXCEPT ![Main] = "failed"]
    /\ initErr' = err

\* Lines 160-173: return the known token, or write RequestPushButtonAuth with
\* id self._commandId, which is not advanced here.
PbRequest ==
    /\ pc[Main] = "pbSend"
    /\ IF TokenKnown(token)
         THEN /\ pc' = [pc EXCEPT ![Main] = "returned"]
              /\ initResult' = token
              /\ UNCHANGED <<sent, pending, sock, initErr, pairing>>
         ELSE IF sock \in {"open", "closed"}
         THEN /\ sent' = Append(sent, Request(commandId, RequestPushButtonAuth, None, Main))
              /\ pending' = IF sock = "open" THEN pending \cup {Len(sent) + 1} ELSE pending
              /\ sock' = IF sock = "closed" THEN "reset" ELSE sock
              /\ pairing' = IF sock = "open" THEN "requested" ELSE pairing
              /\ pc' = [pc EXCEPT ![Main] = "pbResp"]
              /\ UNCHANGED <<initResult, initErr>>
         ELSE /\ InitRaises("OSError")
              /\ UNCHANGED <<sent, pending, sock, initResult, pairing>>
    /\ UNCHANGED <<sessionVars, hubVars, probe, flowVars, readerVars, extraVars, wsVars, commandId, mutex, conn, command_id, myReq, ret,
                   helloAt, wire, notifs>>

\* Lines 175-188: one pass of the loop that waits for the response with
\* id = self._commandId; response["id"] of a notification frame raises KeyError.
\* The id is advanced only when that response has been read.
PbReadResponse ==
    /\ pc[Main] = "pbResp"
    /\ \E o \in ReadOutcomes(wire, sock) :
        /\ wire' = o[3]
        /\ IF o[1] = "raise" THEN InitRaises(o[2].status) /\ UNCHANGED commandId
           ELSE IF IsNotification(o[2]) THEN InitRaises("KeyError") /\ UNCHANGED commandId
           ELSE IF o[2].id = commandId
             THEN /\ commandId' = commandId + 1
                  /\ pc' = [pc EXCEPT ![Main] = "pbWait"]
                  /\ UNCHANGED initErr
           ELSE UNCHANGED <<commandId, pc, initErr>>
    /\ UNCHANGED <<sessionVars, hubVars, probe, flowVars, readerVars, extraVars, wsVars, mutex, sock, conn, command_id, myReq, ret,
                   initResult, helloAt, sent, pending, notifs, pairing>>

\* Lines 195-211 and 148-156: one pass of the wait for PushButtonAuthFinished;
\* on success the token is stored and init_connection returns it.
PbWait ==
    /\ pc[Main] = "pbWait"
    /\ \E o \in ReadOutcomes(wire, sock) :
        /\ wire' = o[3]
        /\ IF o[1] = "raise"
             THEN InitRaises(o[2].status) /\ UNCHANGED <<token, initResult, pbIgnored>>
           ELSE IF IsAuthSuccess(o[2])
             THEN /\ token' = o[2].token
                  /\ initResult' = o[2].token
                  /\ pc' = [pc EXCEPT ![Main] = "returned"]
                  /\ UNCHANGED <<initErr, pbIgnored>>
           ELSE /\ pbIgnored' = (pbIgnored \/ o[2].name = PushButtonAuthFinished)
                /\ UNCHANGED <<token, initResult, pc, initErr>>
    /\ UNCHANGED <<authenticationRequired, initialSetupRequired,
                   pushButtonAuthAvailable, ctorToken, hubFlags, probe, flowVars, readerVars, extraVars, wsVars,
                   commandId, mutex,
                   sock, conn, command_id, myReq, ret, helloAt, sent, pending,
                   notifs, pairing>>

\* ------------------------------------------------------------------- hub
\* The hub can write while the connection is open.
HubSpeaks == sock = "open"

\* Hello and RequestPushButtonAuth need no authentication: the hub answers
\* "unauthorized" only to the other methods.
HubStatuses(method) ==
    IF method \in {Hello, RequestPushButtonAuth} THEN Statuses
    ELSE Statuses \cup {"unauthorized"}

\* The hub answers one of the requests it holds, in any order, with the
\* request's id; a Hello is answered with the hub's flags.
HubRespond ==
    /\ HubSpeaks
    /\ \E r \in pending : \E status \in HubStatuses(sent[r].method) :
        /\ wire' = Append(wire, Response(sent[r].id, status, r,
                       IF sent[r].method = Hello THEN hubFlags ELSE NoFlags))
        /\ pending' = pending \ {r}
    /\ UNCHANGED <<sessionVars, hubVars, probe, flowVars, readerVars, extraVars, wsVars, commandId, mutex, sock, conn, pc,
                   command_id, myReq, ret, initResult, initErr, helloAt, sent, notifs, pairing>>

\* What the hub may push: a state change at any time; the outcome of a pairing
\* once RequestPushButtonAuth has reached it, a failure any number of times
\* and then one success, which carries the new token.
HubNotifications ==
    {Notification(StateChanged, FALSE, None)}
    \cup (IF pairing = "requested"
          THEN {Notification(PushButtonAuthFinished, FALSE, None)}
               \cup {Notification(PushButtonAuthFinished, TRUE, t) : t \in HubTokens}
          ELSE {})

\* The hub pushes a notification on the command connection.
HubNotify ==
    /\ HubSpeaks
    /\ notifs < MaxNotifs
    /\ \E n \in HubNotifications :
        /\ wire' = Append(wire, n)
        /\ pairing' = IF n.success THEN n.token ELSE pairing
    /\ notifs' = notifs + 1
    /\ UNCHANGED <<sessionVars, hubVars, probe, flowVars, readerVars, extraVars, wsVars, commandId, mutex, sock, conn, pc,
                   command_id, myReq, ret, initResult, initErr, helloAt, sent, pending>>

\* The hub (or the network) closes the command connection.
HubClose ==
    /\ sock = "open"
    /\ sock' = "closed"
    /\ UNCHANGED <<sessionVars, hubVars, probe, flowVars, readerVars, extraVars, wsVars, commandId, mutex, conn, pc, command_id,
                   myReq, ret, initResult, initErr, helloAt, sent, wire, pending,
                   notifs, pairing>>

\* ------------------------------------------------- notification listener
SetNotificationStatus == "JSONRPC.SetNotificationStatus"
WsFrame(id, method, tok) == [id |-> id, method |-> method, token |-> tok]

\* "self._token" as a condition: neither None nor the empty string.
Truthy(tok) == tok \notin {None, ""}

\* if self._authenticationRequired and self._token (lines 315 and 341)
WsAuthenticatesTokenOnly(authRequired, tok) == Truthy(tok)
WsAuthenticates(authRequired, tok) == authRequired /\ Truthy(tok)

\* Lines 334-344: SetNotificationStatus, with the token when authenticating.
WsEnableFrame ==
    WsFrame(2, SetNotificationStatus,
            IF WsAuthenticates(authenticationRequired, token) THEN token ELSE None)

cmdVars == <<commandId, mutex, sock, conn, pc, command_id, myReq, ret, initResult,
             initErr, helloAt, sent, wire, pending, notifs, pairing>>

\* self._ws_task is None or self._ws_task.done()
TaskIdleAlways(p) == TRUE
TaskIdle(p) == p \in {"none", "ended"}

\* The awaits of the listener task: where a cancellation is delivered.
WsAwaits == {"connect", "helloWait", "authWait", "notifWait", "loop"}

\* Lines 427-432: start_notification_listener creates a task, with the stop
\* flag cleared, when none runs; else it does nothing.  async_setup_entry and
\* async_unload_entry of one entry do not overlap.
StartTask ==
    /\ pc[Main] \in {"returned", "failed"}
    /\ stopPc # "awaiting"
    /\ IF TaskIdle(wsPc)
         THEN /\ stopFlag' = FALSE
              /\ wsPc' = "connect"
              /\ wsSent' = <<>>
              /\ wsRecv' = <<>>
              /\ wsCancel' = FALSE
              /\ orphans' = orphans + (IF wsPc \in WsAwaits THEN 1 ELSE 0)
              /\ stopPc' = "idle"
              /\ UNCHANGED cancelledAt
         ELSE UNCHANGED <<stopFlag, wsPc, wsSent, wsRecv, taskVars>>
    /\ UNCHANGED <<sessionVars, hubVars, probe, flowVars, readerVars, cmdVars, online, dispatchVars>>

StartListener == StartTask /\ UNCHANGED extraVars

\* Lines 267-302: the WebSocket connects, plainly or over TLS, and the
\* listener writes the Hello without token; or both attempts fail.
WsConnect ==
    /\ wsPc = "connect"
    /\ ~wsCancel
    /\ \/ /\ wsSent' = <<WsFrame(0, Hello, None)>>
          /\ wsPc' = "helloWait"
          /\ UNCHANGED online
       \/ /\ online' = FALSE
          /\ wsPc' = "ended"
          /\ UNCHANGED wsSent
    /\ UNCHANGED <<sessionVars, hubVars, probe, flowVars, readerVars, extraVars, cmdVars, stopFlag, wsRecv, taskVars, dispatchVars>>

\* Lines 303-344: the answer to the first Hello; then the Hello with the token
\* when authenticating, else SetNotificationStatus.
\* Lines 302-311: 'if hello_response.get("status") != "success": return'.
HelloFailedNever(status) == FALSE
HelloFailed(status) == status # "success"

WsHelloResponse ==
    /\ wsPc = "helloWait"
    /\ ~wsCancel
    /\ \E status \in Statuses :
        /\ wsRecv' = Append(wsRecv, status)
        /\ IF HelloFailed(status)
             THEN wsPc' = "ended" /\ UNCHANGED wsSent
           ELSE IF WsAuthenticates(authenticationRequired, token)
             THEN /\ wsSent' = Append(wsSent, WsFrame(1, Hello, token))
                  /\ wsPc' = "authWait"
           ELSE /\ wsSent' = Append(wsSent, WsEnableFrame)
                /\ wsPc' = "notifWait"
    /\ UNCHANGED <<sessionVars, hubVars, probe, flowVars, readerVars, extraVars, cmdVars, stopFlag, online, taskVars, dispatchVars>>

\* Lines 323-344: the answer to the Hello with the token.
WsAuthResponse ==
    /\ wsPc = "authWait"
    /\ ~wsCancel
    /\ \E status \in Statuses :
        /\ wsRecv' = Append(wsRecv, status)
        /\ IF status # "success"
             THEN wsPc' = "ended" /\ UNCHANGED wsSent
           ELSE /\ wsSent' = Append(wsSent, WsEnableFrame)
                /\ wsPc' = "notifWait"
    /\ UNCHANGED <<sessionVars, hubVars, probe, flowVars, readerVars, extraVars, cmdVars, stopFlag, online, taskVars, dispatchVars>>

\* while not self._stop_notification_listener
LoopContinues(flag) == ~flag

\* Lines 345-352: the answer to SetNotificationStatus, whatever its status;
\* then the listen loop.
\* Lines 343-352: the response to SetNotificationStatus is logged, as info
\* when its status is success and as a warning otherwise, and the listener
\* goes on to its loop in both cases.
EnableProceedsOnSuccess(status) == status = "success"
EnableProceeds(status) == TRUE

WsEnableResponse ==
    /\ wsPc = "notifWait"
    /\ ~wsCancel
    /\ \E status \in Statuses :
        /\ wsRecv' = Append(wsRecv, status)
        /\ wsPc' = IF EnableProceeds(status) /\ LoopContinues(stopFlag)
                     THEN "loop" ELSE "ended"
    /\ UNCHANGED <<sessionVars, hubVars, probe, flowVars, readerVars, extraVars, cmdVars, wsSent, stopFlag, online, taskVars,
                   dispatchVars>>

\* Lines 394-404: the connection closes under a recv; the task ends.
WsClosed ==
    /\ wsPc \in {"helloWait", "authWait", "notifWait", "loop"}
    /\ ~wsCancel
    /\ wsPc' = "ended"
    /\ UNCHANGED <<sessionVars, hubVars, probe, flowVars, readerVars, extraVars, cmdVars, wsSent, stopFlag, online, wsRecv,
                   taskVars, dispatchVars>>

\* ------------------------------------------- handler registry and dispatch
\* Lines 406-413: register_notification_handler appends to the list of the name.
Register(name, h) ==
    /\ Len(handlers[StateChanged]) + Len(handlers[ThingAdded]) < MaxRegs
    /\ handlers' = [handlers EXCEPT ![name] = Append(@, h)]
    /\ UNCHANGED <<sessionVars, hubVars, probe, flowVars, readerVars, extraVars, cmdVars, wsPc, wsSent, stopFlag, online, wsRecv,
                   taskVars, wsCount, calls, lastRaised, cache, lastSeen>>

\* list.remove: the list without the first occurrence of h.
RECURSIVE RemoveFirst(_, _)
RemoveFirst(seq, h) ==
    IF seq = <<>> THEN <<>>
    ELSE IF Head(seq) = h THEN Tail(seq)
    ELSE <<Head(seq)>> \o RemoveFirst(Tail(seq), h)

\* Lines 415-425: unregister_notification_handler, for a handler in the list
\* (for one that is not there list.remove raises and nothing changes).
Unregister(name, h) ==
    /\ \E i \in 1..Len(handlers[name]) : handlers[name][i] = h
    /\ handlers' = [handlers EXCEPT ![name] = RemoveFirst(@, h)]
    /\ UNCHANGED <<sessionVars, hubVars, probe, flowVars, readerVars, extraVars, cmdVars, wsPc, wsSent, stopFlag, online, wsRecv,
                   taskVars, wsCount, calls, lastRaised, cache, lastSeen>>

\* What the hub may push on the notification connection.
WsMessages ==
    {WsNotification(StateChanged, Params("X", "S1", "on")),
     WsNotification(ThingAdded, Params("X", "S1", "off")),
     WsResponse}

\* Lines 367-380: one call_soon_threadsafe(handler, params) per handler of the
\* list, in the order of the list.
Scheduled(hs, params) == [i \in 1..Len(hs) |-> [handler |-> hs[i], params |-> params]]

\* Lines 352-393: one pass of the listen loop in which a message arrives.  A
\* pass that times out changes nothing.  Between the recv and the next pass
\* the task does not yield.
\* The value a Thing was told last: the state after msg of the record of the
\* StateChanged notifications read that carry a stateTypeId and a value.
SeenAfter(seen, msg) ==
    IF /\ msg.kind = "notification"
       /\ msg.name = StateChanged
       /\ msg.params.thingId \in ThingIds
       /\ msg.params.stateTypeId \in StateTypeIds
       /\ msg.params.value # None
      THEN [seen EXCEPT ![msg.params.thingId][msg.params.stateTypeId] = msg.params.value]
      ELSE seen

WsReceiveFrom(msgs) ==
    /\ wsPc = "loop"
    /\ ~wsCancel
    /\ wsCount < MaxWsNotifs
    /\ \E msg \in msgs :
        /\ calls' = calls \o (IF msg.kind = "notification"
                                 THEN Scheduled(handlers[msg.name], msg.params) ELSE <<>>)
        /\ lastSeen' = SeenAfter(lastSeen, msg)
    /\ wsCount' = wsCount + 1
    /\ wsPc' = IF LoopContinues(stopFlag) THEN "loop" ELSE "ended"
    /\ UNCHANGED <<sessionVars, hubVars, probe, flowVars, readerVars, extraVars, cmdVars, wsSent, stopFlag, online, wsRecv,
                   taskVars, handlers, lastRaised, cache>>

WsReceive == WsReceiveFrom(WsMessages)

\* Thing._handle_state_changed (src/thing.py lines 50-62) of Thing t.
HandleStateChangedAnyThing(c, t, params) ==
    IF params.stateTypeId # None /\ params.value # None
      THEN [c EXCEPT ![t][params.stateTypeId] = params.value]
    ELSE c
HandleStateChanged(c, t, params) ==
    IF params.thingId # t THEN c
    ELSE IF params.stateTypeId # None /\ params.value # None
      THEN [c EXCEPT ![t][params.stateTypeId] = params.value]
    ELSE c

\* Each handler is a callback of its own on the event loop: one that raises is
\* reported by the loop, which goes on with the next.
RemainingDropped(queue, raised) == IF raised THEN <<>> ELSE Tail(queue)
Remaining(queue, raised) == Tail(queue)

\* The event loop runs the callback scheduled first; the handler may raise.
RunCallback ==
    /\ calls # <<>>
    /\ \E raised \in BOOLEAN :
        /\ lastRaised' = raised
        /\ calls' = Remaining(calls, raised)
        /\ cache' = IF raised THEN cache
                    ELSE HandleStateChanged(cache, Head(calls).handler, Head(calls).params)
    /\ UNCHANGED <<sessionVars, hubVars, probe, flowVars, readerVars, extraVars, cmdVars, wsPc, wsSent, stopFlag, online, wsRecv,
                   taskVars, handlers, wsCount, lastSeen>>

\* async_update of the entity of Thing t (src/switch.py lines 85-105,
\* src/binary_sensor.py lines 140-156) after its send_command call, which is
\* worker 1's: the value of a response is stored in the Thing's cache; a call
\* that returned None or raised makes the entity unavailable.
EntityUpdate(t) ==
    /\ pc[1] = "done"
    /\ pc' = [pc EXCEPT ![1] = "updated"]
    /\ IF ret[1].kind = "response"
         THEN \E v \in Values : cache' = [cache EXCEPT ![t]["S1"] = v]
         ELSE UNCHANGED cache
    /\ UNCHANGED <<sessionVars, hubVars, probe, flowVars, readerVars, extraVars, commandId, mutex, sock, conn, command_id, myReq, ret,
                   initResult, initErr, helloAt, sent, wire, pending, notifs, pairing,
                   wsPc, wsSent, stopFlag, online, wsRecv, taskVars, handlers, wsCount,
                   calls, lastRaised, lastSeen>>

\* ---------------------------------------------- stop_notification_listener
\* Lines 434-438: set the stop flag; cancel the task if there is one that has
\* not ended, and wait for it.
StopTask ==
    /\ pc[Main] \in {"returned", "failed"}
    /\ stopPc # "awaiting"
    /\ stopFlag' = TRUE
    /\ IF ~TaskIdle(wsPc)
         THEN wsCancel' = TRUE /\ stopPc' = "awaiting"
         ELSE wsCancel' = wsCancel /\ stopPc' = "returned"
    /\ UNCHANGED <<sessionVars, hubVars, probe, flowVars, readerVars, cmdVars, wsPc, wsSent, online, wsRecv, orphans,
                   cancelledAt, dispatchVars>>

StopRequest == StopTask /\ UNCHANGED extraVars

\* The cancelled task is resumed at its await with CancelledError, which no
\* "except Exception" of the listener catches: the task ends.
WsCancelled ==
    /\ wsCancel
    /\ wsPc \in WsAwaits
    /\ wsPc' = "ended"
    /\ wsCancel' = FALSE
    /\ cancelledAt' = wsPc
    /\ UNCHANGED <<sessionVars, hubVars, probe, flowVars, readerVars, extraVars, cmdVars, wsSent, stopFlag, online, wsRecv,
                   orphans, stopPc, dispatchVars>>

\* await self._ws_task (lines 439-440) returns when the task has ended.
AwaitDoneAlways(p) == TRUE
AwaitDone(p) == p = "ended"

StopReturn ==
    /\ stopPc = "awaiting"
    /\ AwaitDone(wsPc)
    /\ stopPc' = "returned"
    /\ UNCHANGED <<sessionVars, hubVars, probe, flowVars, readerVars, extraVars, cmdVars, wsPc, wsSent, stopFlag, online, wsRecv,
                   wsCancel, orphans, cancelledAt, dispatchVars>>

\* ------------------------------------------- the reader, byte by byte
\* The bytes of a frame: the braces, the newline that ends the frame, and one
\* symbol per member: "n" for a notification key, "i0" and "i1" for an id of
\* 0 and of 1.  A response carries a nested params object.
RdNotification == <<"{", "n", "{", "}", "}", "\n">>
RdResponse(idByte) == <<"{", idByte, "{", "}", "}", "\n">>

\* The command_id of the call that reads.
RdCommandId == 1

\* What the hub writes for the call: its response, alone or after a
\* notification or after the response to an earlier request; or a
\* notification only, after which it closes the connection.
RdStreams == {<<RdResponse("i1")>>,
              <<RdNotification, RdResponse("i1")>>,
              <<RdResponse("i0"), RdResponse("i1")>>,
              <<RdNotification>>}

RECURSIVE Flatten(_)
Flatten(seqs) == IF seqs = <<>> THEN <<>> ELSE Head(seqs) \o Flatten(Tail(seqs))

\* Every way the network can deliver the bytes as consecutive non-empty
\* reads (all of them far below the 4096 bytes a recv takes).
RECURSIVE Chunkings(_)
Chunkings(bytes) ==
    IF bytes = <<>> THEN {<<>>}
    ELSE UNION {{<<SubSeq(bytes, 1, k)>> \o rest :
                    rest \in Chunkings(SubSeq(bytes, k + 1, Len(bytes)))} :
                k \in 1..Len(bytes)}

\* b"}\n" in data (line 244)
HasDelimiterBraceOnly(d) == \E k \in 1..Len(d) : d[k] = "}"
HasDelimiter(d) == \E k \in 1..(Len(d) - 1) : d[k] = "}" /\ d[k + 1] = "\n"

\* The position of the brace that closes the object opened before position
\* i at the given depth; 0 if the data end first.
RECURSIVE CloseOf(_, _, _)
CloseOf(d, i, depth) ==
    IF i > Len(d) THEN 0
    ELSE IF d[i] = "{" THEN CloseOf(d, i + 1, depth + 1)
    ELSE IF d[i] = "}" THEN (IF depth = 1 THEN i ELSE CloseOf(d, i + 1, depth - 1))
    ELSE CloseOf(d, i + 1, depth)

\* json.loads(data.decode("utf-8")) (line 250): white space, one object,
\* white space; anything after it is "Extra data".
JsonLoads(d) ==
    LET starts == {k \in 1..Len(d) : d[k] # "\n"} IN
    IF starts = {} THEN Object("JSONDecodeError", -1)
    ELSE LET s == CHOOSE k \in starts : \A j \in starts : k <= j
             c == CloseOf(d, s + 1, 1)
             members == {d[k] : k \in (s + 1)..(c - 1)} IN
         IF d[s] # "{" \/ c = 0 THEN Object("JSONDecodeError", -1)
         ELSE IF \E k \in (c + 1)..Len(d) : d[k] # "\n" THEN Object("JSONDecodeError", -1)
         ELSE Object(IF "n" \in members THEN "notification" ELSE "response",
                     IF "i1" \in members THEN 1 ELSE IF "i0" \in members THEN 0 ELSE -1)

\* send_command has written its request; what the hub writes for it arrives.
RdArrive ==
    /\ rdPc = "idle"
    /\ \E frames \in RdStreams : \E chunks \in Chunkings(Flatten(frames)) :
        /\ rdFrames' = frames
        /\ rdChunks' = chunks
        /\ stream' = chunks
    /\ rdPc' = "reading"
    /\ UNCHANGED <<sessionVars, hubVars, cmdVars, wsVars, probe, flowVars, extraVars, data, rdResult>>

\* Lines 241-258: one recv of the inner loop and, when the delimiter is in
\* data, the decode and the test of the outer loop.
RdRecv ==
    /\ rdPc = "reading"
    /\ stream # <<>>
    /\ stream' = Tail(stream)
    /\ LET d == data \o Head(stream)
           response == JsonLoads(d) IN
       IF ~HasDelimiter(d)
         THEN data' = d /\ UNCHANGED <<rdPc, rdResult>>
       ELSE IF response.kind = "JSONDecodeError"
         THEN data' = d /\ rdPc' = "raised" /\ rdResult' = response
       ELSE IF response.kind = "notification" \/ response.id # RdCommandId
         THEN data' = <<>> /\ UNCHANGED <<rdPc, rdResult>>
       ELSE data' = d /\ rdPc' = "done" /\ rdResult' = response
    /\ UNCHANGED <<sessionVars, hubVars, cmdVars, wsVars, probe, flowVars, extraVars, rdFrames, rdChunks>>

\* Lines 245-247: the hub has closed the connection and nothing is left to
\* read: recv returns b"".
RdEof ==
    /\ rdPc = "reading"
    /\ stream = <<>>
    /\ rdPc' = "raised"
    /\ rdResult' = Object("RuntimeError", -1)
    /\ UNCHANGED <<sessionVars, hubVars, cmdVars, wsVars, probe, flowVars, extraVars, rdFrames, rdChunks,
                   stream, data>>

NextReader ==
    \/ RdArrive
    \/ RdRecv
    \/ RdEof

InitReader == Init /\ ctorToken = None /\ hubFlags = NoFlags
SpecReader == InitReader /\ [][NextReader]_vars

\* ------------------------------------------------------- test_connection
\* What sock.connect of the probe meets within its 5 seconds: it returns, or
\* raises TimeoutError, or raises another OSError (refused, unreachable, name
\* not resolved).
ConnectOutcomes == {"connected", "timeout", "oserror"}

\* Lines 81-85: True when connect returned, False when it raised.
ProbeResultOptimistic(outcome) == TRUE
ProbeResult(outcome) == outcome = "connected"

Probed(outcome) == [outcome |-> outcome, result |-> ProbeResult(outcome)]

\* Lines 77-85: test_connection connects a socket of its own, which the
\* "with" closes; it uses of the box only the host and the port.
TestConnection ==
    /\ \E outcome \in ConnectOutcomes : probe' = Probed(outcome)
    /\ UNCHANGED <<sessionVars, hubVars, cmdVars, wsVars, flowVars, readerVars, extraVars>>

\* ----------------------------------------------------------- config flow
\* re.match of ^(?!-)[A-Za-z0-9-]{1,63}(?<!-)(\.[A-Za-z0-9-]{1,63})*$
MaxLabel == 63
LabelChars == {"a", "-"}

AllLabelChars(h, i, j) == \A k \in i..j : h[k] \in LabelChars

\* "$": at the end of the string, or before a newline that ends it.
EndPositions(h) ==
    {Len(h)} \cup (IF h # <<>> /\ h[Len(h)] = "\n" THEN {Len(h) - 1} ELSE {})

\* (\.[A-Za-z0-9-]{1,63})* from position i up to position e
RECURSIVE DotLabels(_, _, _)
DotLabels(h, i, e) ==
    \/ i = e + 1
    \/ /\ i <= e
       /\ h[i] = "."
       /\ \E j \in (i + 1)..e :
            /\ j - i <= MaxLabel
            /\ AllLabelChars(h, i + 1, j)
            /\ DotLabels(h, j + 1, e)

HostMatches(h) ==
    \E e \in EndPositions(h) : \E k \in 1..e :
        /\ k <= MaxLabel
        /\ AllLabelChars(h, 1, k)
        /\ h[1] # "-"
        /\ h[k] # "-"
        /\ DotLabels(h, k + 1, e)

\* Lines 41-51: validate_input raises InvalidHost when the pattern does not
\* match, and only then probes; CannotConnect when the probe returns False.
ValidateInputProbeFirst(host, reach) ==
    IF ~ProbeResult(reach) THEN "CannotConnect"
    ELSE IF ~HostMatches(host) THEN "InvalidHost"
    ELSE "ok"
ValidateInput(host, reach) ==
    IF ~HostMatches(host) THEN "InvalidHost"
    ELSE IF ~ProbeResult(reach) THEN "CannotConnect"
    ELSE "ok"

\* The probe of validate_input is made unless InvalidHost was raised.
ProbeOf(host, reach, v) == IF v = "InvalidHost" THEN probe ELSE Probed(reach)

Hosts == {<<"a">>, <<"a", ".", "a">>, <<"a", "-", "a">>, <<"a", "\n">>,
          <<>>, <<"-", "a">>, <<"a", "-">>, <<"a", ".">>, <<".", "a">>,
          <<"a", ".", ".", "a">>, <<"-", "a", "-">>}

DefaultPort == 2223
DefaultWsPort == 4444
UserInputs == [host : Hosts, port : {2222}, websocket_port : {DefaultWsPort}]

JsonRpcType == "_jsonrpc._tcp.local."
WsType == "_ws._tcp.local."
\* A discovery: port 0 stands for no port; configured says that an entry
\* with the unique id of the discovered hostname exists.
Discoveries == [host : Hosts, port : {0, 2222}, type : {JsonRpcType, WsType},
                configured : BOOLEAN]

\* "_ws._tcp" in discovery_info.type
IsWsDiscovery(type) == type = WsType

\* Lines 136-139: the errors of the user form for the exception caught.
UserErrorsSwapped(v) ==
    IF v = "CannotConnect" THEN [NoErrors EXCEPT !.host = "cannot_connect"]
    ELSE [NoErrors EXCEPT !.base = "cannot_connect"]
UserErrors(v) ==
    IF v = "CannotConnect" THEN [NoErrors EXCEPT !.base = "cannot_connect"]
    ELSE [NoErrors EXCEPT !.host = "cannot_connect"]

boxVars == <<sessionVars, hubVars, cmdVars, wsVars, readerVars, extraVars>>

\* Lines 124-147, user_input None: the flow starts by showing the user form.
StepUserInit ==
    /\ flowStep = "none"
    /\ flowStep' = "user"
    /\ flowErrors' = NoErrors
    /\ UNCHANGED <<boxVars, probe, flowReason, flowData, entry, submitted>>

\* Lines 124-147: the user form submitted.  The ports are valid port numbers.
StepUser ==
    /\ flowStep = "user"
    /\ \E input \in UserInputs, reach \in ConnectOutcomes :
        LET v == ValidateInput(input.host, reach) IN
        /\ submitted' = [NoInput EXCEPT !.via = "user", !.host = input.host,
                            !.port = input.port,
                            !.websocket_port = input.websocket_port,
                            !.reach = reach]
        /\ probe' = ProbeOf(input.host, reach, v)
        /\ IF v = "ok"
             THEN /\ flowData' = [NoData EXCEPT !.host = input.host, !.port = input.port,
                                    !.websocket_port = input.websocket_port]
                  /\ flowStep' = "link"
                  /\ flowErrors' = NoErrors
             ELSE /\ flowStep' = "user"
                  /\ flowErrors' = UserErrors(v)
                  /\ UNCHANGED flowData
    /\ UNCHANGED <<boxVars, flowReason, entry>>

Abort(reason) ==
    /\ flowStep' = "aborted"
    /\ flowReason' = reason

\* Lines 64-106, and 113-117 for the confirmation form shown at the end.
StepZeroconf ==
    /\ flowStep = "none"
    /\ \E d \in Discoveries, reach \in ConnectOutcomes :
        LET v == ValidateInput(d.host, reach) IN
        /\ submitted' = [NoInput EXCEPT !.via = "zeroconf", !.host = d.host,
                            !.port = d.port, !.type = d.type,
                            !.configured = d.configured, !.reach = reach]
        /\ IF IsWsDiscovery(d.type)
             THEN Abort("not_supported") /\ UNCHANGED <<probe, flowData>>
           ELSE IF d.configured
             THEN Abort("already_configured") /\ UNCHANGED <<probe, flowData>>
           ELSE IF v # "ok"
             THEN /\ Abort("cannot_connect")
                  /\ probe' = ProbeOf(d.host, reach, v)
                  /\ UNCHANGED flowData
           ELSE /\ flowData' = [NoData EXCEPT !.host = d.host,
                                  !.port = IF d.port # 0 THEN d.port ELSE DefaultPort,
                                  !.websocket_port = DefaultWsPort]
                /\ probe' = ProbeOf(d.host, reach, v)
                /\ flowStep' = "zeroconf_confirm"
                /\ UNCHANGED flowReason
    /\ UNCHANGED <<boxVars, flowErrors, entry>>

\* Lines 108-121 and 158-160: the user confirms the discovery; the link form
\* is shown.
StepZeroconfConfirm ==
    /\ flowStep = "zeroconf_confirm"
    /\ flowStep' = "link"
    /\ UNCHANGED <<boxVars, probe, flowErrors, flowReason, flowData, entry, submitted>>

\* Lines 162-175: the link form submitted; a MaveoBox without a token is
\* created and its init_connection awaited.
StepLink ==
    /\ flowStep = "link"
    /\ IF flowData = NoData
         THEN Abort("unknown")
         ELSE flowStep' = "linking" /\ UNCHANGED flowReason
    /\ UNCHANGED <<boxVars, probe, flowErrors, flowData, entry, submitted>>

\* await box.init_connection() has returned (not raised)
LinkDoneAlways(p) == p \in {"returned", "failed"}
LinkDone(p) == p = "returned"

\* Lines 175-180: init_connection returned, the token goes into the data and
\* the entry is created with them; or it raised, and so does the step.
StepLinkFinish ==
    /\ flowStep = "linking"
    /\ pc[Main] \in {"returned", "failed"}
    /\ IF LinkDone(pc[Main])
         THEN /\ flowData' = [flowData EXCEPT !.token = initResult]
              /\ entry' = flowData'
              /\ flowStep' = "created"
         ELSE /\ flowStep' = "raised"
              /\ UNCHANGED <<flowData, entry>>
    /\ UNCHANGED <<boxVars, probe, flowErrors, flowReason, submitted>>

\* ------------------------------------------------------------------ Next
Next ==
    \/ Connect
    \/ SslConnect
    \/ ProcessHello
    \/ PbRequest
    \/ PbReadResponse
    \/ PbWait
    \/ \E c \in Callers : SendRequest(c)
    \/ \E c \in Callers : ReadResponse(c)
    \/ HubRespond
    \/ HubNotify
    \/ HubClose

Spec == Init /\ [][Next]_vars

\* The handshake, one later command and the notification listener.
WsCallers == {Main, 1}
NextWs ==
    \/ Connect
    \/ SslConnect
    \/ ProcessHello
    \/ PbRequest
    \/ PbReadResponse
    \/ PbWait
    \/ \E c \in WsCallers : SendRequest(c)
    \/ \E c \in WsCallers : ReadResponse(c)
    \/ HubRespond
    \/ HubNotify
    \/ HubClose
    \/ StartListener
    \/ WsConnect
    \/ WsHelloResponse
    \/ WsAuthResponse
    \/ WsEnableResponse
    \/ WsClosed

SpecWs == Init /\ [][NextWs]_vars

\* The hub of the specifications below answers the handshake of the command
\* connection and then leaves that connection alone; it needs no
\* authentication, or the client has a token for it.
ListenFlags == {NoFlags, [NoFlags EXCEPT !.authenticationRequired = TRUE,
                                          !.pushButtonAuthAvailable = TRUE]}
InitListen == Init /\ hubFlags \in ListenFlags /\ ctorToken # None

\* The listener, started when init_connection has returned, and the dispatch
\* of what it reads to the registered handlers; handlers come and go once
\* init_connection has returned.
NextDispatch ==
    \/ Connect
    \/ ProcessHello
    \/ SendRequest(Main)
    \/ ReadResponse(Main)
    \/ HubRespond
    \/ (wsPc = "none" /\ pc[Main] = "returned" /\ StartListener)
    \/ WsConnect
    \/ WsHelloResponse
    \/ WsAuthResponse
    \/ WsEnableResponse
    \/ WsReceive
    \/ RunCallback
    \/ \E n \in NotifNames, h \in Handlers : pc[Main] = "returned" /\ Register(n, h)
    \/ \E n \in NotifNames, h \in Handlers : pc[Main] = "returned" /\ Unregister(n, h)

SpecDispatch == InitListen /\ [][NextDispatch]_vars

\* The listener of a set-up entry: the Things have registered their handlers
\* when async_setup_entry added them, before it starts the listener.
NextHandlers ==
    \/ Connect
    \/ ProcessHello
    \/ SendRequest(Main)
    \/ ReadResponse(Main)
    \/ HubRespond
    \/ \E h \in Handlers :
          wsPc = "none" /\ pc[Main] = "returned" /\ Register(StateChanged, h)
    \/ (wsPc = "none" /\ pc[Main] = "returned" /\ StartListener)
    \/ WsConnect
    \/ WsHelloResponse
    \/ WsAuthResponse
    \/ WsEnableResponse
    \/ WsReceive
    \/ RunCallback

SpecHandlers == InitListen /\ [][NextHandlers]_vars

\* The life of the listener task: started, stopped and started again, with
\* the handler that a Thing registered when it was set up (async_setup_entry
\* adds the Things before it starts the listener).
NextTask ==
    \/ Connect
    \/ ProcessHello
    \/ SendRequest(Main)
    \/ ReadResponse(Main)
    \/ HubRespond
    \/ (wsPc = "none" /\ Register(StateChanged, "X"))
    \/ StartListener
    \/ WsConnect
    \/ WsHelloResponse
    \/ WsAuthResponse
    \/ WsEnableResponse
    \/ WsClosed
    \/ WsReceive
    \/ RunCallback
    \/ StopRequest
    \/ WsCancelled
    \/ StopReturn

SpecTask == InitListen /\ [][NextTask]_vars

\* The event loop resumes a task that is ready: the cancelled listener, and
\* the stop that waits for it.
SpecTaskFair == SpecTask /\ WF_vars(WsCancelled) /\ WF_vars(StopReturn)

\* An entity's initial fetch beside the notifications for its Thing.
NextEntity ==
    \/ Connect
    \/ ProcessHello
    \/ \E c \in WsCallers : SendRequest(c)
    \/ \E c \in WsCallers : ReadResponse(c)
    \/ HubRespond
    \/ EntityUpdate("X")
    \/ (pc[Main] = "returned" /\ Register(StateChanged, "X"))
    \/ (wsPc = "none" /\ StartListener)
    \/ WsConnect
    \/ WsHelloResponse
    \/ WsAuthResponse
    \/ WsEnableResponse
    \/ WsReceive
    \/ RunCallback

SpecEntity == InitListen /\ [][NextEntity]_vars

\* The config flow, from the first form to the entry; the box of the link
\* step has no token.  A probe may be made at any time.
InitFlow == Init /\ ctorToken = None
NextFlow ==
    \/ StepUserInit
    \/ StepUser
    \/ StepZeroconf
    \/ StepZeroconfConfirm
    \/ StepLink
    \/ (flowStep = "linking" /\ Connect)
    \/ SslConnect
    \/ ProcessHello
    \/ PbRequest
    \/ PbReadResponse
    \/ PbWait
    \/ SendRequest(Main)
    \/ ReadResponse(Main)
    \/ HubRespond
    \/ HubNotify
    \/ HubClose
    \/ StepLinkFinish
    \/ TestConnection

SpecFlow == InitFlow /\ [][NextFlow]_vars

\* ---------------------------------------------------------------- claims
InitFinished == pc[Main] \in {"returned", "failed"}
FlagsOf(a, s, p) == [authenticationRequired |-> a, initialSetupRequired |-> s,
                     pushButtonAuthAvailable |-> p]
HelloProcessed == helloAt > 0
\* The frames init_connection wrote after the Hello response was processed.
InitFramesAfterHello == {i \in (helloAt + 1)..Len(sent) : sent[i].by = Main}
WorkerFrames == {i \in 1..Len(sent) : sent[i].by \in Workers}

\* C1: every send_command call that returns a response returns a response
\* whose id is the id of the request this call wrote, and never the response
\* to the request of another send_command call.
C1_ResponseMatchesRequest ==
    \A c \in Callers :
        ret[c].kind = "response" =>
            /\ ret[c].id = command_id[c]
            /\ ret[c].id = sent[myReq[c]].id
            /\ sent[ret[c].req].method # RequestPushButtonAuth => ret[c].req = myReq[c]

\* Two concurrent callers have both got a response, each its own.
C1_Witness ==
    /\ ret[1].kind = "response"
    /\ ret[2].kind = "response"
    /\ ret[1].req # ret[2].req

\* C2: at most one send_command call is between "request written" and
\* "matching response read", and it holds the lock.
C2_SingleFlight ==
    \A c, d \in Callers :
        pc[c] = "reading" => mutex = c /\ (pc[d] = "reading" => c = d)

\* One call is in its request/response cycle while a second caller waits.
C2_Witness ==
    /\ pc[1] = "reading"
    /\ pc[2] = "queued"
    /\ InitFinished

\* C3 (as claimed): the ids of the request frames written on the command
\* connection increase by exactly 1 from one frame to the next, so no id is
\* written twice.
C3_IdsIncreaseByOne ==
    \A i \in 2..Len(sent) : sent[i].id = sent[i - 1].id + 1

\* C4: with authenticationRequired, no initial setup, push-button available
\* and no token known, init_connection returns only having written Hello and
\* then RequestPushButtonAuth on its connection, returns the token of the
\* successful PushButtonAuthFinished, and every later send_command frame
\* carries that token.
C4_Pre == ctorToken = None /\ hubFlags = FlagsOf(TRUE, FALSE, TRUE)
C4_PushButtonFlow ==
    (C4_Pre /\ pc[Main] = "returned") =>
        /\ initResult # None
        /\ initResult = pairing
        /\ token = initResult
        /\ LET mine == SelectSeq(sent, LAMBDA f : f.by = Main /\ f.conn = conn) IN
            /\ Len(mine) = 2
            /\ mine[1].method = Hello
            /\ mine[2].method = RequestPushButtonAuth
        /\ \A i \in WorkerFrames : sent[i].token = initResult

\* The pairing has returned a token and a later send_command has written its frame.
C4_Witness ==
    /\ C4_Pre
    /\ pc[Main] = "returned"
    /\ WorkerFrames # {}

\* C5: when the Hello response says authenticationRequired = false,
\* init_connection returns no token and no frame written after that response
\* carries a token, also when a token was given to the constructor.
C5_NoAuthNoToken ==
    (HelloProcessed /\ ~hubFlags.authenticationRequired) =>
        /\ pc[Main] = "returned"
        /\ initResult = None
        /\ \A i \in (helloAt + 1)..Len(sent) : sent[i].token = None

\* A constructor token, a hub that needs no authentication, and a later frame.
C5_Witness ==
    /\ HelloProcessed
    /\ ~hubFlags.authenticationRequired
    /\ ctorToken # None
    /\ Len(sent) > helloAt

\* C6 (as claimed): initialSetupRequired = true makes init_connection fail with
\* the unsupported-configuration error, whatever the other flags and the token,
\* without a further frame.
C6_SetupRequiredAlwaysFails ==
    (HelloProcessed /\ hubFlags.initialSetupRequired) =>
        /\ pc[Main] = "failed"
        /\ initErr = "NotImplementedError"
        /\ InitFramesAfterHello = {}

\* C6 (amended): initialSetupRequired = true together with
\* authenticationRequired = true makes init_connection fail with the
\* unsupported-configuration error, whatever pushButtonAuthAvailable and the
\* token, without a further frame.
C6_SetupRequiredFails ==
    (HelloProcessed /\ hubFlags.initialSetupRequired
        /\ hubFlags.authenticationRequired) =>
        /\ pc[Main] = "failed"
        /\ initErr = "NotImplementedError"
        /\ InitFramesAfterHello = {}

\* Setup required on a hub that offers push-button pairing to a client with a token.
C6_Witness ==
    /\ HelloProcessed
    /\ hubFlags = FlagsOf(TRUE, TRUE, TRUE)
    /\ ctorToken # None
    /\ pc[Main] = "failed"

\* C7: authenticationRequired, no initial setup and no push-button pairing
\* make init_connection fail with the unsupported-configuration error, with or
\* without a token, and it writes no RequestPushButtonAuth or other frame.
C7_NoPushButtonFails ==
    (HelloProcessed /\ hubFlags = FlagsOf(TRUE, FALSE, FALSE)) =>
        /\ pc[Main] = "failed"
        /\ initErr = "NotImplementedError"
        /\ InitFramesAfterHello = {}
        /\ \A i \in 1..Len(sent) : sent[i].method # RequestPushButtonAuth

\* No push-button pairing, a token already known, and init_connection has failed.
C7_Witness ==
    /\ HelloProcessed
    /\ hubFlags = FlagsOf(TRUE, FALSE, FALSE)
    /\ ctorToken # None
    /\ pc[Main] = "failed"

\* A PushButtonAuthFinished notification with success = true.
PairingSucceeded(f) ==
    f.kind = "notification" /\ f.name = PushButtonAuthFinished /\ f.success

C9_Pre == ctorToken # None /\ hubFlags = FlagsOf(TRUE, FALSE, TRUE)
C9_TokenSkipsPushButton ==
    C9_Pre =>
        /\ \A i \in 1..Len(sent) : sent[i].method # RequestPushButtonAuth
        /\ pc[Main] \notin {"pbResp", "pbWait"}
        /\ pairing = "idle"
        /\ pc[Main] = "returned" => initResult = ctorToken

\* init_connection has returned for a client that brought its token.
C9_Witness ==
    /\ C9_Pre
    /\ pc[Main] = "returned"
    /\ HelloProcessed

\* C10: the token, once present, is never replaced or cleared; every request
\* frame that carries a token carries this one, every send_command frame
\* written while authentication is required carries it, and so does the
\* authenticating Hello of the notification connection.
C10_TokenFrames ==
    /\ \A i \in 1..Len(sent) : sent[i].token \in {None, token}
    /\ \A i \in WorkerFrames :
        (authenticationRequired /\ token # None) => sent[i].token = token
    /\ \A i \in 1..Len(wsSent) :
        /\ wsSent[i].token \in {None, token}
        /\ wsSent[i].id = 1 => (wsSent[i].token = token /\ token # None)
FramesBy(c) == {i \in 1..Len(sent) : sent[i].by = c}

\* C11 (as claimed): when the response that matches a send_command request has
\* a status other than "success", the call ends with a CommandError and not
\* with a normal return value.
C11_ErrorSurfaces ==
    [][\A c \in Callers :
        (/\ pc[c] = "reading"
         /\ pc'[c] # "reading"
         /\ wire # <<>>
         /\ Head(wire).kind = "response"
         /\ Head(wire).id = command_id[c]
         /\ Head(wire).status # "success"
         /\ wire' = Tail(wire))
        => ret'[c] = Raised("CommandError")]_vars

\* C12: one send_command call writes exactly one request frame, whatever the
\* status of the response: nothing is written between the request and the end
\* of the call, a worker's single call leaves one frame, and init_connection's
\* Hello call leaves one Hello per connection.
C12_NoWriteWhileWaiting ==
    [][(\E c \in Callers : pc[c] = "reading") => sent' = sent]_vars
C12_FramesPerCall ==
    /\ \A c \in Workers :
        /\ Cardinality(FramesBy(c)) <= 1
        /\ ret[c].kind \in {"response", "returnedNone"} =>
              (Cardinality(FramesBy(c)) = 1 /\ pc[c] = "done")
    /\ \A k \in {1, 2} :
        Cardinality({i \in FramesBy(Main) :
                        sent[i].method = Hello /\ sent[i].conn = k}) <= 1
C12_OneFramePerCall == []C12_FramesPerCall /\ C12_NoWriteWhileWaiting

\* A call was answered with a status other than success and has returned.
C12_Witness ==
    /\ ret[1].kind = "returnedNone"
    /\ pc[1] = "done"
    /\ Cardinality(FramesBy(1)) = 1

\* C13: a read that returns zero bytes while send_command waits for its
\* response ends the call with RuntimeError ("socket connection broken"); the
\* call writes no further frame and does not reconnect, and the lock is free.
C13_BrokenRead ==
    [][\A c \in Callers :
        (pc[c] = "reading" /\ pc'[c] # "reading" /\ wire = <<>> /\ sock = "closed")
        => /\ ret'[c] = Raised("RuntimeError")
           /\ sent' = sent
           /\ sock' = sock
           /\ conn' = conn
           /\ mutex' = Free]_vars
C13_AfterBrokenRead ==
    \A c \in Workers :
        ret[c] = Raised("RuntimeError") =>
            /\ pc[c] = "done"
            /\ Cardinality(FramesBy(c)) = 1
            /\ sock \in {"closed", "reset"}
C13_BrokenConnectionNoRetry == C13_BrokenRead /\ []C13_AfterBrokenRead

\* A worker's call has failed on a closed connection.
C13_Witness ==
    /\ ret[1] = Raised("RuntimeError")
    /\ pc[1] = "done"

\* C14 (as claimed): whenever the plain attempt of init_connection fails, by a
\* TCP connection error or by an exception in the Hello handshake, one attempt
\* over TLS follows, and no third attempt: init_connection fails before a Hello
\* response was processed only after the TLS attempt, and it writes at most one
\* Hello per connection.
C14_PlainFailureRetriesTls ==
    /\ (pc[Main] = "failed" /\ ~HelloProcessed) => conn = 2
    /\ \A k \in {1, 2} :
        Cardinality({i \in FramesBy(Main) :
                        sent[i].method = Hello /\ sent[i].conn = k}) <= 1

Range(seq) == {seq[i] : i \in 1..Len(seq)}
NoTaskRunning == wsPc \in {"none", "ended"}
\* The callbacks that a step has added to the event loop's queue.
NewCalls == SubSeq(calls', Len(calls) + 1, Len(calls'))
\* The step is a pass of the listen loop that read a message.
MessageRead == wsCount' = wsCount + 1

\* C15 (as claimed): for a notification named N read by the listen loop, each
\* handler registered under N at that moment is scheduled exactly once with the
\* notification's params, in registration order, and no other handler is; a
\* message that is not a notification schedules nothing.
C15_EachHandlerOnce ==
    [][MessageRead =>
        /\ SubSeq(calls', 1, Len(calls)) = calls
        /\ \E msg \in WsMessages :
            IF msg.kind # "notification" THEN NewCalls = <<>>
            ELSE /\ \A h \in Handlers :
                      Cardinality({i \in 1..Len(NewCalls) : NewCalls[i].handler = h})
                          = IF h \in Range(handlers[msg.name]) THEN 1 ELSE 0
                 /\ \A i \in 1..Len(NewCalls) : NewCalls[i].params = msg.params
                 /\ \A i, j \in 1..Len(NewCalls) :
                      i < j => \E k, l \in 1..Len(handlers[msg.name]) :
                                  /\ k < l
                                  /\ handlers[msg.name][k] = NewCalls[i].handler
                                  /\ handlers[msg.name][l] = NewCalls[j].handler]_vars

\* The step is the event loop running a callback.
CallbackRun == Len(calls') < Len(calls)

\* C16: a handler that raises takes nothing with it: running a callback,
\* whether it raises or not, removes that callback alone from the event loop's
\* queue and leaves the listener task and the registry as they are, so the
\* other handlers of the notification are still run and later notifications
\* are still dispatched.
C16_HandlerErrorIsolated ==
    [][CallbackRun =>
        /\ calls' = Tail(calls)
        /\ wsPc' = wsPc
        /\ handlers' = handlers
        /\ wsCount' = wsCount]_vars

\* A handler of the first notification has raised; the next handler is still
\* queued and the listener is in its loop, with a notification yet to come.
C16_Witness ==
    /\ lastRaised
    /\ calls # <<>>
    /\ wsCount = 1
    /\ wsPc = "loop"

\* C17: when stop_notification_listener has returned the listener task has
\* ended, whatever await it was at when it was cancelled, and from then on
\* (until the next start) the listener reads no message and schedules no
\* handler; a stop that waits for the task does return.
C17_EndedWhenReturned ==
    stopPc = "returned" => (NoTaskRunning /\ ~wsCancel /\ stopFlag)
C17_NothingAfterStop ==
    [][(stopPc = "returned" /\ stopPc' = "returned") =>
        (wsCount' = wsCount /\ Len(calls') <= Len(calls) /\ wsSent' = wsSent)]_vars
C17_StopTerminatesTask ==
    /\ []C17_EndedWhenReturned
    /\ C17_NothingAfterStop
    /\ (stopPc = "awaiting" ~> stopPc = "returned")

\* A stop has returned that cancelled the task in its timed receive, after the
\* task had scheduled a handler, which has not run yet.
C17_Witness ==
    /\ stopPc = "returned"
    /\ cancelledAt = "loop"
    /\ calls # <<>>

\* C18: never more than one listener task is running; a task is created only
\* when none is running, with the stop flag cleared, and a running task that
\* has not been cancelled never finds the stop flag set, so that it enters its
\* listen loop.
C18_NoSecondTask == orphans = 0
C18_FlagClearWhileRunning == (wsPc \in WsAwaits /\ ~wsCancel) => ~stopFlag
C18_CreatedWhenIdle ==
    [][(wsPc' = "connect" /\ wsPc # "connect") =>
        (NoTaskRunning /\ ~stopFlag' /\ ~wsCancel')]_vars
C18_AtMostOneTask ==
    /\ []C18_NoSecondTask
    /\ []C18_FlagClearWhileRunning
    /\ C18_CreatedWhenIdle

\* A task was stopped in its listen loop, and the task started after that is
\* in its listen loop.
C18_Witness ==
    /\ cancelledAt = "loop"
    /\ wsPc = "loop"
    /\ ~stopFlag
    /\ stopPc = "idle"

\* C19 (as claimed): whenever the hub object holds a token, whatever the Hello
\* flags were, the frame the listener writes after its first Hello is a Hello
\* with that token.
C19_TokenHelloWhateverFlags ==
    (token # None /\ Len(wsSent) >= 2) => wsSent[2] = WsFrame(1, Hello, token)

\* C19 (amended): the listener writes its first Hello without token; after a
\* successful answer it writes a Hello with the token exactly when
\* authentication is required and a token is held, and SetNotificationStatus
\* only after that Hello was answered with success: on another answer it
\* ends without subscribing.  Without authentication required,
\* SetNotificationStatus follows the first Hello.
C19_TokenHelloWhenRequired ==
    /\ Len(wsSent) >= 1 => wsSent[1] = WsFrame(0, Hello, None)
    /\ Len(wsSent) >= 2 =>
        /\ wsRecv[1] = "success"
        /\ IF authenticationRequired /\ token # None
             THEN /\ wsSent[2] = WsFrame(1, Hello, token)
                  /\ Len(wsSent) >= 3 =>
                        (wsRecv[2] = "success" /\ wsSent[3].method = SetNotificationStatus)
                  /\ (Len(wsRecv) >= 2 /\ wsRecv[2] # "success") =>
                        (wsPc = "ended" /\ Len(wsSent) = 2)
             ELSE /\ wsSent[2].method = SetNotificationStatus
                  /\ Len(wsSent) = 2
    /\ Len(wsSent) <= 3

\* The Hello with the token was refused and the listener has ended.
C19_Witness ==
    /\ Len(wsSent) = 2
    /\ wsSent[2] = WsFrame(1, Hello, token)
    /\ Len(wsRecv) = 2
    /\ wsRecv[2] = "error"
    /\ wsPc = "ended"

\* C20 (as claimed): a Thing's state cache changes only when the event loop
\* runs a handler that the listener scheduled: no entity operation and no
\* command-channel call changes a cache entry.
C20_CacheWrittenByDispatchOnly ==
    [][cache' # cache => (calls # <<>> /\ calls' = Tail(calls))]_vars

\* C21 (as claimed): under each notification name the registry holds a set:
\* no callback appears more than once under a name, whatever register and
\* unregister calls were made.
C21_NoDuplicateEntries ==
    \A n \in NotifNames :
        \A i, j \in 1..Len(handlers[n]) : handlers[n][i] = handlers[n][j] => i = j

\* C22: test_connection returns true exactly when its own connect succeeded
\* and false, never an exception, on a timeout or a socket error; and it
\* leaves the command socket, the command id counter, the token, the session
\* flags and the listener as they were.
C22_ResultIsReachability ==
    probe.outcome # "none" =>
        /\ probe.result \in BOOLEAN
        /\ probe.result <=> probe.outcome = "connected"
C22_MainConnectionUntouched ==
    [][probe' # probe =>
        UNCHANGED <<sock, conn, wire, sent, commandId, mutex, token,
                    authenticationRequired, initialSetupRequired,
                    pushButtonAuthAvailable, wsPc, wsSent, stopFlag, online,
                    handlers, calls>>]_vars
C22_TestConnection == []C22_ResultIsReachability /\ C22_MainConnectionUntouched

\* A probe has failed on a timeout beside an established, paired main
\* connection.
C22_Witness ==
    /\ probe = [outcome |-> "timeout", result |-> FALSE]
    /\ sock = "open"
    /\ pc[Main] = "returned"
    /\ token \in HubTokens

\* C23: in the user step a failed probe of a host that passes the hostname
\* validation shows the user form again with errors {base: cannot_connect},
\* without reaching the link step or creating an entry; in the zeroconf step
\* the same failure aborts the flow with reason cannot_connect.
C23_ProbeFailed == HostMatches(submitted.host) /\ submitted.reach # "connected"
C23_UserStep ==
    (submitted.via = "user" /\ C23_ProbeFailed) =>
        /\ flowStep = "user"
        /\ flowErrors = [base |-> "cannot_connect", host |-> None]
        /\ entry = NoData
C23_ZeroconfStep ==
    (/\ submitted.via = "zeroconf"
     /\ submitted.type = JsonRpcType
     /\ ~submitted.configured
     /\ C23_ProbeFailed) =>
        /\ flowStep = "aborted"
        /\ flowReason = "cannot_connect"
        /\ entry = NoData
C23_CannotConnect == C23_UserStep /\ C23_ZeroconfStep

\* The user form is shown again after the probe of a valid host timed out.
C23_Witness ==
    /\ submitted.via = "user"
    /\ submitted.host = <<"a", ".", "a">>
    /\ submitted.reach = "timeout"
    /\ flowStep = "user"
    /\ flowErrors.base = "cannot_connect"

\* C24: in the user step a host that fails the hostname validation is
\* rejected with errors {host: cannot_connect} whether or not a connection to
\* it would succeed: the validation comes before the probe, which is not made;
\* the user form is shown again and the link step is not reached.
C24_Rejected ==
    (submitted.via = "user" /\ ~HostMatches(submitted.host)) =>
        /\ flowStep = "user"
        /\ flowErrors = [base |-> None, host |-> "cannot_connect"]
        /\ entry = NoData
C24_NoProbe ==
    [][(/\ submitted' # submitted
        /\ submitted'.via = "user"
        /\ ~HostMatches(submitted'.host)) => probe' = probe]_vars
C24_InvalidHostRejected == []C24_Rejected /\ C24_NoProbe

\* A host that starts and ends with a hyphen, and that a probe would have
\* reached, has been rejected.
C24_Witness ==
    /\ submitted.via = "user"
    /\ submitted.host = <<"-", "a", "-">>
    /\ submitted.reach = "connected"
    /\ flowStep = "user"
    /\ flowErrors.host = "cannot_connect"
    /\ probe = NoProbe

\* C25: on every path through the config flow an entry is created only in the
\* link step, after the input validation succeeded, the link form was
\* submitted and init_connection returned; its data are the stored host, port
\* and websocket port plus exactly the token init_connection returned.  A
\* discovery of type _ws._tcp aborts with not_supported before these steps.
C25_CreatedInLinkStep ==
    [][entry' # entry =>
        /\ flowStep = "linking"
        /\ pc[Main] = "returned"
        /\ flowStep' = "created"
        /\ entry' = [host |-> flowData.host, port |-> flowData.port,
                     websocket_port |-> flowData.websocket_port,
                     token |-> initResult]]_vars
C25_StoredPort ==
    IF submitted.via = "zeroconf" /\ submitted.port = 0 THEN DefaultPort
    ELSE submitted.port
C25_AfterValidation ==
    flowStep \in {"link", "linking", "created", "raised"} =>
        /\ HostMatches(submitted.host)
        /\ submitted.reach = "connected"
        /\ flowData.host = submitted.host
        /\ flowData.port = C25_StoredPort
        /\ flowData.websocket_port = DefaultWsPort
C25_NoEntryElsewhere ==
    /\ flowStep # "created" => entry = NoData
    /\ flowStep \notin {"linking", "created", "raised"} => pc[Main] = "new"
C25_WsDiscoveryAborts ==
    submitted.type = WsType =>
        /\ flowStep = "aborted"
        /\ flowReason = "not_supported"
        /\ flowData = NoData
C25_EntryOnlyAfterLink ==
    /\ C25_CreatedInLinkStep
    /\ [](C25_AfterValidation /\ C25_NoEntryElsewhere /\ C25_WsDiscoveryAborts)

\* A discovered hub was confirmed, linked and paired: the entry holds the
\* token the pairing issued.
C25_Witness ==
    /\ submitted.via = "zeroconf"
    /\ submitted.port = 0
    /\ flowStep = "created"
    /\ entry.token \in HubTokens
    /\ entry.port = DefaultPort

\* C26 (as claimed): while send_command waits for its response, a frame with
\* a notification key that arrives on the command connection is discarded
\* without ending the wait: the read that consumes it leaves the call waiting,
\* with nothing returned or raised.
C26_NotificationDiscarded ==
    [][\A c \in Callers :
        (/\ pc[c] = "reading"
         /\ wire # <<>>
         /\ IsNotification(Head(wire))
         /\ Len(wire') < Len(wire)) =>
            /\ pc'[c] = "reading"
            /\ ret'[c] = ret[c]]_vars

\* C27 (as claimed): a notification frame read while the push-button flow
\* waits for the response to RequestPushButtonAuth is tolerated: init_connection
\* does not fail and the flow goes on waiting for that response.
C27_NotificationTolerated ==
    [][(/\ pc[Main] = "pbResp"
        /\ wire # <<>>
        /\ IsNotification(Head(wire))
        /\ wire' = Tail(wire)) =>
            /\ pc'[Main] = "pbResp"
            /\ initErr' = initErr]_vars

\* C28: however one response frame is split into consecutive non-empty reads,
\* also between its closing brace and the newline, send_command reassembles
\* the chunks and returns the object it returns when the frame arrives in a
\* single read.
C28_SingleRead == JsonLoads(RdResponse("i1"))
C28_Reassembled ==
    rdFrames = <<RdResponse("i1")>> =>
        /\ rdPc # "raised"
        /\ stream = <<>> => rdPc = "done"
        /\ rdPc = "done" => rdResult = C28_SingleRead /\ rdResult = Object("response", 1)

\* The frame arrived split between its closing brace and the newline.
C28_Witness ==
    /\ rdChunks = << <<"{", "i1", "{", "}", "}">>, <<"\n">> >>
    /\ rdPc = "done"
    /\ rdResult = Object("response", 1)

\* C29 (as claimed): no frame is lost or merged by the reader: whatever reads
\* deliver the frames that end with the matching response, also one read that
\* holds more than one frame or a frame and the beginning of the next, every
\* frame is decoded separately and the matching response is returned.
C29_FramesSeparated ==
    (rdFrames # <<>> /\ rdFrames[Len(rdFrames)] = RdResponse("i1")) =>
        /\ rdPc # "raised"
        /\ stream = <<>> => rdPc = "done"
        /\ rdPc = "done" => rdResult = Object("response", 1)

\* C30: however a send_command call ends (response returned, None returned
\* for a status other than success, connection broken, malformed frame, send
\* failure), the command lock is released: whenever no call is in progress
\* the lock is free, so a failed call never blocks a later one.
C30_CallEnds(c) ==
    \/ pc[c] = "reading" /\ pc'[c] # "reading"
    \/ pc[c] # "reading" /\ ret'[c] # ret[c]
C30_ReleasedAtExit == [][\A c \in Callers : C30_CallEnds(c) => mutex' = Free]_vars
C30_FreeWhenNoCall == (\A c \in Callers : pc[c] # "reading") => mutex = Free
C30_LockReleased == []C30_FreeWhenNoCall /\ C30_ReleasedAtExit

\* A call failed on a broken connection and a later call of another caller
\* has taken the lock.
C30_Witness ==
    /\ ret[1] = Raised("RuntimeError")
    /\ pc[2] = "reading"
    /\ mutex = 2

\* The step is the peer closing the notification connection under the listen
\* loop: recv raises ConnectionClosed and the loop breaks.
ClosedInLoop == wsPc = "loop" /\ ~wsCancel /\ wsPc' = "ended" /\ wsCount' = wsCount

\* C34 (as claimed): when the peer closes the notification connection while
\* the listener is in its listen loop, the loop ends, the task terminates
\* without reconnecting, and the hub no longer reports itself online.
C34_ChannelDownSurfaced ==
    [][ClosedInLoop => (wsPc' = "ended" /\ wsSent' = wsSent /\ ~online')]_vars

\* The thread of a caller. init_connection is a coroutine of the event loop,
\* and it calls send_command("JSONRPC.Hello") and _pushbuttonAuthentication
\* itself: only the two socket connects and the TLS wrap go through
\* run_in_executor.
OnEventLoop(c) == c = Main

\* A blocking recv is running on the event loop's thread: a caller of that
\* thread is between the send of its frame and the frame it waits for.
LoopBlocked ==
    \E c \in Callers : OnEventLoop(c) /\ pc[c] \in {"reading", "pbResp", "pbWait"}

\* C36 (as claimed): no blocking socket operation of the hub client runs on
\* the event loop: while init_connection performs the Hello exchange or waits
\* for the push-button notification the loop is free to run other tasks.
C36_LoopNeverBlocked == ~LoopBlocked

\* C38 (as claimed): once unregister_notification_handler(name, h) has
\* returned, h is not invoked again, also not for a notification read before
\* the call whose invocation was only scheduled: the callback that the event
\* loop runs belongs to a handler that is still registered.
C38_NoCallAfterUnregister ==
    [][CallbackRun =>
        \E n \in NotifNames : Head(calls).handler \in Range(handlers[n])]_vars

\* The listener is in its loop and the response to SetNotificationStatus, the
\* last response of the handshake, was not a success.
EnableRejected == wsPc = "loop" /\ wsRecv # <<>> /\ wsRecv[Len(wsRecv)] # "success"

\* C32: a SetNotificationStatus response whose status is not success does not
\* end the listener: unless a stop was requested the listen loop is entered,
\* and a notification read afterwards is scheduled for every handler
\* registered under its name.
C32_RejectionTolerated ==
    /\ [][(wsPc = "notifWait" /\ wsRecv' # wsRecv /\ ~stopFlag) => wsPc' = "loop"]_vars
    /\ [][(EnableRejected /\ MessageRead) =>
            \E msg \in WsMessages :
                NewCalls = IF msg.kind = "notification"
                             THEN Scheduled(handlers[msg.name], msg.params)
                             ELSE <<>>]_vars

C32_Witness ==
    /\ EnableRejected
    /\ wsSent[Len(wsSent)] = WsEnableFrame
    /\ \E i \in 1..Len(calls) : calls[i].handler \in Range(handlers[StateChanged])

\* C33: when the first, unauthenticated Hello of the notification connection
\* is not answered with success, the listener task ends having sent nothing
\* but that Hello and having read and scheduled nothing; and nothing is read
\* or scheduled before every frame of the handshake, the last of them
\* SetNotificationStatus, was answered and every Hello with success.
C33_HandshakeFirst ==
    /\ (wsRecv # <<>> /\ wsRecv[1] # "success") =>
          /\ wsPc = "ended"
          /\ wsSent = <<WsFrame(0, Hello, None)>>
          /\ wsCount = 0
          /\ calls = <<>>
    /\ (wsCount > 0 \/ calls # <<>>) =>
          /\ Len(wsRecv) = Len(wsSent)
          /\ wsSent[Len(wsSent)] = WsEnableFrame
          /\ \A i \in 1..(Len(wsRecv) - 1) : wsRecv[i] = "success"

C33_Witness ==
    /\ wsRecv # <<>> /\ wsRecv[1] # "success"
    /\ wsPc = "ended"
    /\ handlers[StateChanged] # <<>>

\* ------------------------------------------ Hub.send_command (src/hub.py)
\* The command-line client of the earlier revision: one call of send_command
\* on a connected Hub, with what it does when the hub answers "unauthorized".
\* The hub answers JSONRPC.Authenticate with success or error, never with
\* "unauthorized". The frames one call may write are capped at MaxHubFrames.
Authenticate == "JSONRPC.Authenticate"
HubAnswers == {"success", "error", "unauthorized"}
HubMethods == {GetThings, GetStateValue}
mainVars == <<sessionVars, hubVars, cmdVars, wsVars, probe, flowVars, readerVars>>

\* Lines 289-298: the frame carries the token when authentication is required
\* and self._token is set.
HubFrame(h, method) ==
    [id |-> h.commandId, method |-> method,
     token |-> IF h.authRequired /\ h.token # None THEN h.token ELSE None]

\* send_command(method, params) up to its send.
HubWrite(h, method, at) ==
    [h EXCEPT !.sent = Append(@, HubFrame(h, method)), !.pc = at]

\* Lines 288-298: the call, on a hub object that init() has left with or
\* without a token.
HubSendCommand(method, tok, auth, pb) ==
    /\ hubCall.pc = "idle"
    /\ hubCall' = HubWrite([hubCall EXCEPT !.token = tok, !.authRequired = auth,
                                            !.pushButton = pb, !.method = method],
                           method, "reading")
    /\ UNCHANGED <<mainVars, setupPc, twin>>

\* Lines 228-244 behind line 318: pushbuttonAuthentication returns at once
\* when the hub object has a token, and writes RequestPushButtonAuth otherwise.
HubReauthenticate(h) ==
    IF h.pushButton
      THEN IF h.token # None THEN HubWrite(h, h.method, "reading")
           ELSE HubWrite(h, RequestPushButtonAuth, "pbResp")
      ELSE HubWrite(h, Authenticate, "login")

\* Lines 300-339: the response with the call's id is read and the commandId
\* advanced; "unauthorized" re-authenticates and calls send_command again,
\* any other failure returns None, success returns the response.
HubReadResponse ==
    /\ hubCall.pc = "reading"
    /\ \E status \in HubAnswers :
        LET h == [hubCall EXCEPT !.commandId = @ + 1] IN
        IF status = "unauthorized"
          THEN /\ Len(hubCall.sent) < MaxHubFrames
               /\ hubCall' = HubReauthenticate(h)
          ELSE hubCall' = [h EXCEPT !.pc = "done",
                                    !.ret = IF status = "success" THEN "response"
                                            ELSE "None"]
    /\ UNCHANGED <<mainVars, setupPc, twin>>

\* Lines 246-258: the response to RequestPushButtonAuth.
HubPbResponse ==
    /\ hubCall.pc = "pbResp"
    /\ hubCall' = [hubCall EXCEPT !.commandId = @ + 1, !.pc = "pbWait"]
    /\ UNCHANGED <<mainVars, setupPc, twin>>

\* Lines 268-286 and 319: PushButtonAuthFinished with success = true assigns
\* the token to a local name and returns, self._token is as it was; then
\* 'return self.send_command(method, params)'.
HubPbFinished ==
    /\ hubCall.pc = "pbWait"
    /\ Len(hubCall.sent) < MaxHubFrames
    /\ hubCall' = HubWrite(hubCall, hubCall.method, "reading")
    /\ UNCHANGED <<mainVars, setupPc, twin>>

\* Lines 215-226 and 321-327: the answer to login()'s JSONRPC.Authenticate.
\* An error makes send_command return None and login_response["params"]
\* raise TypeError; success = false asks again; success = true assigns the
\* token to a local name and calls send_command(method, params) again.
HubLoginResponse ==
    /\ hubCall.pc = "login"
    /\ LET h == [hubCall EXCEPT !.commandId = @ + 1] IN
       \/ hubCall' = [h EXCEPT !.pc = "raised", !.ret = "TypeError"]
       \/ /\ Len(hubCall.sent) < MaxHubFrames
          /\ \E success \in BOOLEAN :
              hubCall' = HubWrite(h, IF success THEN h.method ELSE Authenticate,
                                  IF success THEN "reading" ELSE "login")
    /\ UNCHANGED <<mainVars, setupPc, twin>>

\* Lines 304-307: recv returns b"": RuntimeError("socket connection broken").
HubBroken ==
    /\ hubCall.pc \in {"reading", "pbResp", "pbWait", "login"}
    /\ hubCall' = [hubCall EXCEPT !.pc = "raised", !.ret = "RuntimeError"]
    /\ UNCHANGED <<mainVars, setupPc, twin>>

NextHub ==
    \/ \E method \in HubMethods, tok \in CtorTokens, auth \in BOOLEAN, pb \in BOOLEAN :
          HubSendCommand(method, tok, auth, pb)
    \/ HubReadResponse
    \/ HubPbResponse
    \/ HubPbFinished
    \/ HubLoginResponse
    \/ HubBroken

InitHub == Init /\ hubFlags = NoFlags /\ ctorToken = None
SpecHub == InitHub /\ [][NextHub]_vars

\* The frames of the call that carry its method.
HubMethodFrames == {i \in 1..Len(hubCall.sent) : hubCall.sent[i].method = hubCall.method}

setupFrame == <<hubCall, twin>>

\* Lines 38-43: 'try: await nymea_hub.init_connection() except Exception:
\* raise ConfigEntryNotReady'.
SetupProceedsAlways(p) == TRUE
SetupProceeds(p) == p = "returned"

SetupInit ==
    /\ setupPc = "new"
    /\ pc[Main] \in {"returned", "failed"}
    /\ setupPc' = IF SetupProceeds(pc[Main]) THEN "connected" ELSE "notReady"
    /\ UNCHANGED <<mainVars, setupFrame>>

\* Line 46 (discover_and_log_all_things, src/maveo_box.py lines 451-604): its
\* commands have run; whatever they raise is caught and logged there.
SetupDiscover ==
    /\ setupPc = "connected"
    /\ pc[1] = "done"
    /\ setupPc' = "discovered"
    /\ UNCHANGED <<mainVars, setupFrame>>

\* Lines 49-52: MaveoStick.add and Thing.add subscript what send_command
\* returns, so a None or an exception ends the setup; otherwise every Thing
\* found is constructed, and its constructor registers its handler.
SetupThings ==
    /\ setupPc = "discovered"
    /\ pc[2] = "done"
    /\ IF ret[2].kind = "response"
         THEN /\ setupPc' = "things"
              /\ \E things \in {<<>>, <<"X">>, <<"X", "Y">>} :
                    handlers' = [handlers EXCEPT ![StateChanged] = @ \o things]
         ELSE setupPc' = "raised" /\ UNCHANGED handlers
    /\ UNCHANGED <<sessionVars, hubVars, cmdVars, probe, flowVars, readerVars, setupFrame,
                   wsPc, wsSent, stopFlag, online, wsRecv, taskVars, wsCount, calls,
                   lastRaised, cache, lastSeen>>

\* Line 54: await hass.config_entries.async_forward_entry_setups(entry, PLATFORMS).
SetupForward ==
    /\ setupPc = "things"
    /\ setupPc' = "forwarded"
    /\ UNCHANGED <<mainVars, setupFrame>>

\* Lines 56-60: nymea_hub.start_notification_listener(); return True.
SetupStart ==
    /\ setupPc = "forwarded"
    /\ StartTask
    /\ setupPc' = "loaded"
    /\ UNCHANGED setupFrame

\* Lines 73-75: nymea_hub = entry.runtime_data; await
\* nymea_hub.stop_notification_listener(), up to its await of the task.
UnloadStop ==
    /\ setupPc = "loaded"
    /\ StopTask
    /\ setupPc' = "stopping"
    /\ UNCHANGED setupFrame

\* Lines 77-80: stop_notification_listener has returned; the platforms are
\* unloaded.
UnloadPlatforms ==
    /\ setupPc = "stopping"
    /\ stopPc = "returned"
    /\ setupPc' = "unloaded"
    /\ UNCHANGED <<mainVars, setupFrame>>

NextSetup ==
    \/ Connect
    \/ ProcessHello
    \/ SendRequest(Main)
    \/ ReadResponse(Main)
    \/ HubRespond
    \/ SetupInit
    \/ (setupPc = "connected" /\ SendRequest(1))
    \/ ReadResponse(1)
    \/ SetupDiscover
    \/ (setupPc = "discovered" /\ SendRequest(2))
    \/ ReadResponse(2)
    \/ SetupThings
    \/ SetupForward
    \/ SetupStart
    \/ WsConnect
    \/ WsHelloResponse
    \/ WsAuthResponse
    \/ WsEnableResponse
    \/ WsClosed
    \/ WsReceive
    \/ RunCallback
    \/ UnloadStop
    \/ WsCancelled
    \/ StopReturn
    \/ UnloadPlatforms

SpecSetup == InitListen /\ [][NextSetup]_vars

\* C37: the listener is started only by a setup whose init_connection has
\* returned, whose discovery and Thing set-up have run and whose platforms
\* have been forwarded; a setup whose init_connection raised ends with
\* ConfigEntryNotReady and no listener; and when the platforms are unloaded
\* the listener has been told to stop and its task has ended.
C37_ListenerLast ==
    /\ wsPc # "none" =>
          /\ setupPc \in {"loaded", "stopping", "unloaded"}
          /\ pc[Main] = "returned"
          /\ pc[1] = "done" /\ pc[2] = "done" /\ ret[2].kind = "response"
    /\ pc[Main] = "failed" => setupPc \in {"new", "notReady"} /\ wsPc = "none"
    /\ setupPc \in {"notReady", "raised"} => wsPc = "none"
    /\ setupPc = "unloaded" => wsPc = "ended" /\ stopFlag /\ stopPc = "returned"

C37_Witness ==
    /\ setupPc = "unloaded"
    /\ wsPc = "ended"
    /\ wsRecv # <<>>
    /\ handlers[StateChanged] # <<>>

\* ------------------------------------ two MaveoBox objects in one process
\* Hubs A and B have each their own socket; a hub's calls follow one another.
\* twin[h]: where h's call is, how many calls h has made, the response that
\* h's socket holds, and what the last call returned.
TwinHolder(h) == MaxCalls + (IF h = "A" THEN 1 ELSE 2)

\* Line 22: 'mutex: Lock = Lock()' is a module-level name, so the 'with mutex'
\* of every MaveoBox object takes the same lock.
SharesMutexNever(h) == FALSE
SharesMutex(h) == TRUE

twinFrame == <<sessionVars, hubVars, wsVars, probe, flowVars, readerVars, hubCall,
               setupPc, commandId, sock, conn, pc, command_id, myReq, ret, initResult,
               initErr, helloAt, sent, wire, pending, notifs, pairing>>

\* Lines 224-237 on hub h: the lock is taken and the frame is written.
TwinSend(h) ==
    /\ twin[h].pc = "idle"
    /\ twin[h].calls < MaxTwinCalls
    /\ SharesMutex(h) => CanAcquire
    /\ mutex' = IF SharesMutex(h) THEN TwinHolder(h) ELSE mutex
    /\ twin' = [twin EXCEPT ![h].pc = "reading", ![h].calls = @ + 1]
    /\ UNCHANGED twinFrame

\* Hub h answers the frame, or never does.
TwinRespond(h) ==
    /\ twin[h].pc = "reading"
    /\ twin[h].wire = None
    /\ \E status \in Statuses : twin' = [twin EXCEPT ![h].wire = status]
    /\ UNCHANGED <<twinFrame, mutex>>

\* Lines 239-265 on hub h: the response is read, the call returns and the
\* lock is released.
TwinRead(h) ==
    /\ twin[h].pc = "reading"
    /\ twin[h].wire # None
    /\ twin' = [twin EXCEPT ![h].pc = "idle", ![h].wire = None,
                            ![h].ret = IF twin[h].wire = "success" THEN "response"
                                       ELSE "None"]
    /\ mutex' = IF SharesMutex(h) THEN LockAfter(TwinHolder(h), ReturnedNone) ELSE mutex
    /\ UNCHANGED twinFrame

\* Lines 245-247 on hub h: the peer closes, recv returns b"" and the call
\* raises RuntimeError through 'with mutex'.
TwinBroken(h) ==
    /\ twin[h].pc = "reading"
    /\ twin[h].wire = None
    /\ twin' = [twin EXCEPT ![h].pc = "idle", ![h].ret = "RuntimeError"]
    /\ mutex' = IF SharesMutex(h) THEN LockAfter(TwinHolder(h), Raised("RuntimeError"))
                ELSE mutex
    /\ UNCHANGED twinFrame

NextTwin ==
    \/ \E h \in TwinHubs : TwinSend(h)
    \/ \E h \in TwinHubs : TwinRespond(h)
    \/ \E h \in TwinHubs : TwinRead(h)
    \/ \E h \in TwinHubs : TwinBroken(h)

InitTwin == Init /\ hubFlags = NoFlags /\ ctorToken = None
SpecTwin == InitTwin /\ [][NextTwin]_vars

\* C39: the command lock is one for all MaveoBox objects: the request and
\* response cycles of two hubs never overlap, the hub in its cycle holds the
\* lock, and while one hub waits for its response the other starts no call.
C39_CyclesExclusive ==
    \A h, g \in TwinHubs :
        /\ twin[h].pc = "reading" => mutex = TwinHolder(h)
        /\ (h # g /\ twin[h].pc = "reading") => twin[g].pc # "reading"
C39_WaitBlocksOther ==
    [][\A h, g \in TwinHubs :
          (h # g /\ twin[h].pc = "reading" /\ twin'[h].pc = "reading")
              => twin'[g] = twin[g]]_vars
C39_SharedLock == []C39_CyclesExclusive /\ C39_WaitBlocksOther

C39_Witness ==
    /\ twin["A"].pc = "reading" /\ twin["A"].wire = None
    /\ twin["B"].pc = "idle" /\ twin["B"].calls = 1
    /\ mutex = TwinHolder("A")

\* ------------------------------------------- the state caches of the Things
\* StateChanged notifications for two Things and two state types, one without
\* a stateTypeId and one with a null value.
CacheMessages ==
    {WsNotification(StateChanged, Params(m[1], m[2], m[3])) :
        m \in {<<"X", "S1", "on">>, <<"X", "S1", "off">>, <<"X", "S2", "on">>,
               <<"Y", "S1", "on">>, <<"X", None, "on">>, <<"X", "S1", None>>}}

\* The Things register their handlers when async_setup_entry constructs them,
\* before it starts the listener; the handler of a Thing, given the params
\* object of a notification, does not raise; an entity of Thing X fetches its
\* state with async_update.
NextCache ==
    \/ Connect
    \/ ProcessHello
    \/ \E c \in WsCallers : SendRequest(c)
    \/ \E c \in WsCallers : ReadResponse(c)
    \/ HubRespond
    \/ EntityUpdate("X")
    \/ \E h \in Handlers :
          wsPc = "none" /\ pc[Main] = "returned" /\ Register(StateChanged, h)
    \/ (wsPc = "none" /\ pc[Main] = "returned" /\ StartListener)
    \/ WsConnect
    \/ WsHelloResponse
    \/ WsAuthResponse
    \/ WsEnableResponse
    \/ WsReceiveFrom(CacheMessages)
    \/ (RunCallback /\ ~lastRaised')

SpecCache == InitListen /\ [][NextCache]_vars

\* C35 (as claimed): once the handlers scheduled for the notifications read
\* have run, the cached value of a Thing for a stateTypeId is the value of the
\* StateChanged notification read last for that Thing and stateTypeId among
\* those that carried a value.
C35_CacheIsLastNotified ==
    calls = <<>> =>
        \A t \in Range(handlers[StateChanged]) : \A s \in StateTypeIds :
            lastSeen[t][s] # None => cache[t][s] = lastSeen[t][s]

\* C40: a StateChanged notification handled by a Thing's handler changes at
\* most the entry of that Thing for the notification's stateTypeId, and only
\* when the notification is for that Thing and carries a stateTypeId and a
\* value; every other entry of every cache is as it was.
C40_OnlyOwnEntry ==
    [][CallbackRun =>
        \A u \in ThingIds : \A s \in StateTypeIds :
            cache'[u][s] # cache[u][s] =>
                /\ u = Head(calls).handler
                /\ u = Head(calls).params.thingId
                /\ s = Head(calls).params.stateTypeId
                /\ Head(calls).params.value # None
                /\ cache'[u][s] = Head(calls).params.value]_vars

C40_Witness ==
    /\ cache["X"]["S1"] # None
    /\ cache["X"]["S2"] = None
    /\ cache["X"]["S1"] = lastSeen["X"]["S1"]
    /\ cache["Y"]["S1"] = None /\ cache["Y"]["S2"] = None
    /\ "Y" \in Range(handlers[StateChanged])
    /\ pc[1] # "updated"
    /\ calls = <<>>

====
